---- MODULE Spec2Model ----
(***************************************************************************)
(* dsv-wrapper: the cookie cache backends (auth/cache_backend.py) and the  *)
(* Shibboleth authenticator (auth/shibboleth.py).                          *)
(*                                                                         *)
(* Strings the code inspects character-wise (cache keys, cookie names) are *)
(* sequences of tokens; a token never contains "/", "\" or "_" unless it   *)
(* is exactly that character, so str.replace and str.startswith act on     *)
(* tokens as they act on characters.                                       *)
(***************************************************************************)
EXTENDS Integers, Sequences, FiniteSets, TLC

VARIABLES
    backend,      \* which CacheBackend the run uses: "null", "memory", "file"
    default_ttl,  \* MemoryCache.default_ttl / FileCache.default_ttl
    memCache,     \* MemoryCache._cache : key -> None | (cookies, expires_at)
    files,        \* the *.json files of FileCache.cache_dir : path -> None | data
    now,          \* datetime.now(), in seconds
    last,         \* the last completed cache call (history)
    prev,         \* the set call a get directly followed, if any (history)
    cache_ttl,    \* ShibbolethAuth.cache_ttl
    jar,          \* ShibbolethAuth.session.cookies
    pc,           \* position of the running _login call, "idle" between calls
    soup,         \* the parsed page the flow is looking at
    resp,         \* status / headers of the credential POST response
    call,         \* what the running (or last) _login call has done (history)
    result,       \* outcome of the last completed _login call
    threads,      \* threads that call one backend: position and locals of each
    flows,        \* _login calls other threads run on the authenticator
    made,         \* a constructor call of a client or bot: arguments, outcome
    bot,          \* a MailBot: its fields, the threads in start() and stop()
    twin          \* the login of an AsyncShibbolethAuth with the same inputs

cacheVars == <<backend, default_ttl, memCache, files, now, last, prev>>
loginVars == <<cache_ttl, jar, pc, soup, resp, call, result>>
vars == <<backend, default_ttl, memCache, files, now, last, prev,
          cache_ttl, jar, pc, soup, resp, call, result, threads, flows,
          made, bot, twin>>

\* ----------------------------------------------------------------- bounds
MaxTime == 2
MaxTtl == 2
MaxCalls == 2
MaxOps == 2
MaxRedirects == 2
MaxInputs == 2
MaxEmails == 2

NoTtl == 0 - 1          \* ttl=None

\* A get that finds nothing returns None.
Absent == [absent |-> TRUE]

\* No entry under a key of MemoryCache._cache, no file at a path.
NoEntry == [present |-> FALSE]

\* ------------------------------------------------------- cookies and jars
JSESSIONID == <<"JSESSIONID">>
SHIB == <<"_shibsession", "_", "64656661">>
LANG == <<"lang">>

Cookie(n, v, d) == [name |-> n, value |-> v, domain |-> d, path |-> "/"]

\* The cookies the servers of the model hand out.
ServerCookies ==
    { Cookie(JSESSIONID, "v1", "idp.it.su.se"),
      Cookie(SHIB, "v1", "dsv.su.se"),
      Cookie(LANG, "v1", "dsv.su.se") }

CookieKey(c) == <<c.domain, c.path, c.name>>

\* RequestsCookieJar.set_cookie: one cookie per (domain, path, name).
JarSetCookie(j, c) == {x \in j : CookieKey(x) # CookieKey(c)} \cup {c}

\* RequestsCookieJar.update(other): set_cookie of every cookie of other.
JarUpdate(j, other) ==
    {x \in j : \A y \in other : CookieKey(y) # CookieKey(x)} \cup other

IsJar(j) == \A x \in j, y \in j : CookieKey(x) = CookieKey(y) => x = y

Jars == {j \in SUBSET ServerCookies : IsJar(j)}

\* The order a jar is iterated in (domain, then path, then name).
RECURSIVE JarToSeq(_)
JarToSeq(j) ==
    IF j = {} THEN <<>>
    ELSE LET c == CHOOSE x \in j : TRUE
         IN <<c>> \o JarToSeq(j \ {c})

\* ------------------------------------------------------------- cache keys
USERNAME == <<"u">>
DAISY_STAFF == <<"daisy", "_", "staff">>
HANDLEDNING == <<"handledning">>

\* f"{self.username}_{service}"
CacheKey(username, service) == username \o <<"_">> \o service

Services == {DAISY_STAFF, HANDLEDNING}

DAISY_STUDENT == <<"daisy", "_", "student">>
UNIFIED == <<"unified">>
ACTLAB == <<"actlab">>
CLICKMAP == <<"clickmap">>

\* The keys of DSV_SSO_TARGETS.
SsoTargets == {DAISY_STAFF, DAISY_STUDENT, HANDLEDNING, UNIFIED}

\* if service in DSV_SSO_TARGETS
HasSsoTarget(service) == service \in SsoTargets

\* The service targets the clients of the package log in to.
ClientServices ==
    {DAISY_STAFF, DAISY_STUDENT, HANDLEDNING, ACTLAB, CLICKMAP, UNIFIED}

\* The services of the one-call runs: two with an SSO URL and one the
\* ACT Lab client passes.
EngineServices == Services \cup {ACTLAB}

LoginKeys == {CacheKey(USERNAME, s) : s \in EngineServices}

\* Keys a caller of the backend passes directly; the second differs from a
\* login key only in a character FileCache rewrites.
CallerKeys == {CacheKey(USERNAME, HANDLEDNING), <<"u", "/", "handledning">>}

\* Two usernames that differ only in a character FileCache rewrites, for
\* authenticators that share one backend.
Users == {<<"u", "/", "x">>, <<"u", "_", "x">>}

UserKeys == {CacheKey(un, s) : un \in Users, s \in Services}

Keys == LoginKeys \cup CallerKeys \cup UserKeys

\* key.replace("/", "_").replace("\\", "_")
SafeKey(key) ==
    [i \in 1..Len(key) |-> IF key[i] \in {"/", "\\"} THEN "_" ELSE key[i]]

GetCachePath(key) == SafeKey(key) \o <<".json">>

Paths == {GetCachePath(k) : k \in Keys}

\* --------------------------------------------------- MemoryCache entries
\* The cookies of an entry are the object that was passed to set: either the
\* authenticator's own session jar (a reference, seen through later changes
\* of that jar) or a jar of the caller that nothing in the model changes.
SessionRef == [absent |-> FALSE, ref |-> TRUE, dict |-> FALSE]
JarVal(j) == [absent |-> FALSE, ref |-> FALSE, dict |-> FALSE, cookies |-> j]

\* A plain dict {name: value}, which FileCache.set also accepts.
DictVal(items) == [absent |-> FALSE, ref |-> FALSE, dict |-> TRUE, cookies |-> items]

Deref(obj, sessionJar) == IF obj.ref THEN sessionJar ELSE obj.cookies

\* ------------------------------------------------------- expiry and ttl
EffectiveTtlAlwaysDefault(ttl, dflt) == dflt

\* ttl if ttl is not None else self.default_ttl
EffectiveTtl(ttl, dflt) == IF ttl # NoTtl THEN ttl ELSE dflt

ExpiresAt(t, ttl, dflt) == t + EffectiveTtl(ttl, dflt)

ExpiredReversed(t, expires_at) == t < expires_at

\* datetime.now() > expires_at
Expired(t, expires_at) == t > expires_at

\* ------------------------------------------------------ FileCache format
\* expires_at.isoformat() and datetime.fromisoformat(...)
IsoFormat(t) == <<"iso", t>>
FromIsoFormat(s) == s[2]

CookiesDataNoDomain(obj) ==
    LET s == JarToSeq(obj.cookies)
    IN [i \in 1..Len(s) |->
          [name |-> s[i].name, value |-> s[i].value,
           domain |-> "", path |-> "/"]]

\* The list of {name, value, domain, path} records set() writes: for a dict
\* the items with domain "" and path "/", else the cookies of the jar.
CookiesData(obj) ==
    LET s == JarToSeq(obj.cookies)
    IN IF obj.dict
       THEN [i \in 1..Len(s) |->
               [name |-> s[i].name, value |-> s[i].value,
                domain |-> "", path |-> "/"]]
       ELSE [i \in 1..Len(s) |->
               [name |-> s[i].name, value |-> s[i].value,
                domain |-> s[i].domain, path |-> s[i].path]]

FileData(obj, expires_at) ==
    [present |-> TRUE, expires_at |-> IsoFormat(expires_at),
     cookies |-> CookiesData(obj)]

\* A cache file that set() did not write as it stands: what it holds instead,
\* the expires_at it holds (read only by the kinds that have a readable one)
\* and its length, in cookie records.
Malformed(kind, expires_at, len) ==
    [present |-> TRUE, malformed |-> kind,
     expires_at |-> IsoFormat(expires_at), len |-> len]

IsMalformed(f) == "malformed" \in DOMAIN f

\* Kinds get() stumbles over before it has read expires_at: text that is not
\* JSON, an empty file, a JSON document followed by more text, a JSON list,
\* an object without expires_at, an expires_at that is not ISO, an
\* expires_at that is a number.
EarlyKinds == {"not_json", "empty", "extra_data", "not_object",
               "no_expires_at", "expires_not_iso", "expires_not_str"}

\* Kinds with a readable expires_at: a cookie record without "name", and
\* "cookies": null.
LateKinds == {"cookie_without_name", "cookies_not_list"}

\* The exception lines 153-171 raise on a malformed file.
LoadError(kind) ==
    CASE kind \in {"not_json", "empty", "extra_data"} -> "JSONDecodeError"
      [] kind \in {"no_expires_at", "cookie_without_name"} -> "KeyError"
      [] kind = "expires_not_iso" -> "ValueError"
      [] kind \in {"not_object", "expires_not_str", "cookies_not_list"} -> "TypeError"

\* except (json.JSONDecodeError, KeyError, ValueError)
Caught == {"JSONDecodeError", "KeyError", "ValueError"}

\* jar = RequestsCookieJar(); jar.set(name, value, domain=..., path=...)
RECURSIVE Reconstruct(_, _)
Reconstruct(data, j) ==
    IF data = <<>> THEN j
    ELSE Reconstruct(Tail(data),
                     JarSetCookie(j, [name |-> Head(data).name,
                                      value |-> Head(data).value,
                                      domain |-> Head(data).domain,
                                      path |-> Head(data).path]))

\* ------------------------------------------------------- backend results
\* Each operator gives the state of the backend after the call and, for
\* get, the returned object (None when absent).

\* err is the exception get raises, "" when it returns.
MemGet(cache, key, t) ==
    IF ~cache[key].present THEN [cache |-> cache, ret |-> Absent, err |-> ""]
    ELSE IF Expired(t, cache[key].expires_at)
         THEN [cache |-> [cache EXCEPT ![key] = NoEntry], ret |-> Absent,
               err |-> ""]
         ELSE [cache |-> cache, ret |-> cache[key].cookies, err |-> ""]

MemSet(cache, key, obj, ttl, dflt, t) ==
    [cache EXCEPT ![key] = [present |-> TRUE, cookies |-> obj, expires_at |-> ExpiresAt(t, ttl, dflt)]]

MemDelete(cache, key) == [cache EXCEPT ![key] = NoEntry]

MemClearNothing(cache) == cache

\* self._cache.clear()
MemClear(cache) == [k \in DOMAIN cache |-> NoEntry]

FileGet(fs, key, t) ==
    LET p == GetCachePath(key)
        evicted == [files |-> [fs EXCEPT ![p] = NoEntry], ret |-> Absent,
                    err |-> ""]
        raised(e) == IF e \in Caught
                     THEN evicted
                     ELSE [files |-> fs, ret |-> Absent, err |-> e]
    IN IF ~fs[p].present THEN [files |-> fs, ret |-> Absent, err |-> ""]
       ELSE IF IsMalformed(fs[p]) /\ fs[p].malformed \in EarlyKinds
            THEN raised(LoadError(fs[p].malformed))
       ELSE IF Expired(t, FromIsoFormat(fs[p].expires_at))
            THEN evicted
       ELSE IF IsMalformed(fs[p])
            THEN raised(LoadError(fs[p].malformed))
            ELSE [files |-> fs, ret |-> JarVal(Reconstruct(fs[p].cookies, {})),
                  err |-> ""]

FileSet(fs, key, obj, ttl, dflt, t) ==
    [fs EXCEPT ![GetCachePath(key)] = FileData(obj, ExpiresAt(t, ttl, dflt))]

FileDelete(fs, key) == [fs EXCEPT ![GetCachePath(key)] = NoEntry]

FileClear(fs) == [p \in DOMAIN fs |-> NoEntry]

\* cache_backend.get(key) on the configured backend: <<memCache', files', ret>>
BackendGet(kind, cache, fs, key, t) ==
    CASE kind = "null" ->
            [cache |-> cache, files |-> fs, ret |-> Absent, err |-> ""]
      [] kind = "memory" ->
            [cache |-> MemGet(cache, key, t).cache, files |-> fs,
             ret |-> MemGet(cache, key, t).ret, err |-> ""]
      [] kind = "file" ->
            [cache |-> cache, files |-> FileGet(fs, key, t).files,
             ret |-> FileGet(fs, key, t).ret,
             err |-> FileGet(fs, key, t).err]

\* cache_backend.set(key, obj, ttl); sessionJar is what the session jar holds
\* at the call, which is what FileCache iterates when obj is that jar.
BackendSetNullStores(kind, cache, fs, key, obj, ttl, dflt, t, sessionJar) ==
    [cache |-> MemSet(cache, key, obj, ttl, dflt, t), files |-> fs]

BackendSet(kind, cache, fs, key, obj, ttl, dflt, t, sessionJar) ==
    CASE kind = "null" -> [cache |-> cache, files |-> fs]
      [] kind = "memory" ->
            [cache |-> MemSet(cache, key, obj, ttl, dflt, t), files |-> fs]
      [] kind = "file" ->
            [cache |-> cache,
             files |-> FileSet(fs, key,
                               IF obj.ref THEN JarVal(sessionJar) ELSE obj,
                               ttl, dflt, t)]

BackendDelete(kind, cache, fs, key) ==
    CASE kind = "null" -> [cache |-> cache, files |-> fs]
      [] kind = "memory" -> [cache |-> MemDelete(cache, key), files |-> fs]
      [] kind = "file" -> [cache |-> cache, files |-> FileDelete(fs, key)]

BackendClear(kind, cache, fs) ==
    CASE kind = "null" -> [cache |-> cache, files |-> fs]
      [] kind = "memory" -> [cache |-> MemClear(cache), files |-> fs]
      [] kind = "file" -> [cache |-> cache, files |-> FileClear(fs)]

\* Whether backing storage holds anything under the key.
Stored(kind, cache, fs, key) ==
    CASE kind = "null" -> FALSE
      [] kind = "memory" -> cache[key].present
      [] kind = "file" -> fs[GetCachePath(key)].present

\* Whether what backing storage holds under the key has an expiry time get
\* can read.
ExpiryReadable(kind, cache, fs, key) ==
    \/ kind = "memory"
    \/ ~IsMalformed(fs[GetCachePath(key)])
    \/ fs[GetCachePath(key)].malformed \in LateKinds

\* The expiry time of what backing storage holds under the key.
StoredExpiry(kind, cache, fs, key) ==
    IF kind = "memory" THEN cache[key].expires_at
    ELSE FromIsoFormat(fs[GetCachePath(key)].expires_at)

\* The name/value/domain/path tuples of an object a get returned.
Tuples(obj, sessionJar) == Deref(obj, sessionJar)

\* ------------------------------------------- the cache backend, by itself
NoCall == [op |-> "none", key |-> <<>>, obj |-> Absent, ttl |-> NoTtl,
           at |-> 0, ret |-> Absent, stale |-> FALSE, err |-> "",
           malformed |-> FALSE]

\* ------------------------------------------------------ pages and forms
\* What the flow reads of a <form>: its id, its action attribute ("none"
\* when the attribute is missing, "/rel" a path starting with "/", "abs" an
\* absolute URL), whether method="post", and whether "j_username" occurs in
\* str(form); and its <input> elements in document order.
Form(id, action, post, juser) ==
    [id |-> id, action |-> action, post |-> post, juser |-> juser,
     inputs |-> <<>>]

\* An <input>: its name and value attributes, each <<>> when the attribute
\* is missing and <<text>> when it is there.
Input(name, value) == [name |-> name, value |-> value]

WithInputs(form, inputs) == [form EXCEPT !.inputs = inputs]

\* The inputs of the login form of the identity provider.
LoginInputs ==
    << Input(<<"csrf_token">>, <<"t">>), Input(<<"j_username">>, <<>>),
       Input(<<"j_password">>, <<>>),
       Input(<<"_eventId_proceed">>, <<"Login">>) >>

\* The inputs of the auto-submit form that carries the assertion.
SamlInputs ==
    << Input(<<"RelayState">>, <<"r">>), Input(<<"SAMLResponse">>, <<"a">>) >>

LoginForm == WithInputs(Form("login", "abs", TRUE, TRUE), LoginInputs)
LoginFormNoAction == WithInputs(Form("login", "none", TRUE, TRUE), LoginInputs)
LocalStorageForm == Form("", "/rel", TRUE, FALSE)
LocalStorageFormNoAction == Form("", "none", TRUE, FALSE)
UnmarkedLoginForm == WithInputs(Form("", "abs", TRUE, TRUE), LoginInputs)
SamlForm == WithInputs(Form("", "abs", TRUE, FALSE), SamlInputs)
SearchForm == Form("", "abs", FALSE, FALSE)

\* ---------------------------------------------------------- form bodies
\* A dict of a request body: a function from field names to values.
EmptyDict == [x \in {} |-> ""]

\* d[k] = v
DictSet(d, k, v) == [x \in DOMAIN d \cup {k} |-> IF x = k THEN v ELSE d[x]]

\* d.pop(k, None)
DictPop(d, k) == [x \in DOMAIN d \ {k} |-> d[x]]

\* if name:
HasName(input) == input.name # <<>> /\ input.name[1] # ""

\* value or ""
ValueOrEmpty(input) == IF input.value = <<>> THEN "" ELSE input.value[1]

\* for input_field in form.find_all("input"): if name: data[name] = value or ""
RECURSIVE FormData(_, _)
FormData(inputs, d) ==
    IF inputs = <<>> THEN d
    ELSE FormData(Tail(inputs),
                  IF HasName(Head(inputs))
                  THEN DictSet(d, Head(inputs).name[1],
                               ValueOrEmpty(Head(inputs)))
                  ELSE d)

\* self.password, and self.username as one string.
PASSWORD == "p"
UsernameText == USERNAME[1]

LoginDataKeepsSpnego(form, username, password) ==
    DictSet(DictSet(DictSet(FormData(form.inputs, EmptyDict),
                            "j_username", username),
                    "j_password", password),
            "_eventId_proceed", "")

\* Lines 220-236: the body of the credential POST.
LoginData(form, username, password) ==
    LET fields == FormData(form.inputs, EmptyDict)
        updated == DictSet(DictSet(DictSet(fields, "j_username", username),
                                   "j_password", password),
                           "_eventId_proceed", "")
    IN DictPop(DictPop(updated, "_eventId_authn/SPNEGO"),
               "_eventId_trySPNEGO")

\* Whether the form carries the fields of an identity assertion.
HasAssertion(form) ==
    \E i \in 1..Len(form.inputs) :
        form.inputs[i].name \in {<<"SAMLResponse">>, <<"RelayState">>}

\* The <form> lists of the pages the servers of the model answer with.
FormLists ==
    { <<>>, <<LoginForm>>, <<LoginFormNoAction>>,
      <<LocalStorageForm>>, <<LocalStorageFormNoAction>>,
      <<UnmarkedLoginForm>>, <<SamlForm>>,
      <<SearchForm, LoginForm>>, <<SearchForm, UnmarkedLoginForm>> }

\* A parsed page: its forms in document order, and whether it holds a
\* <p class="form-error">.
Page(forms, error) == [forms |-> forms, error |-> error]

EmptyPage == Page(<<>>, FALSE)

Pages == {Page(f, FALSE) : f \in FormLists}

\* The bodies of the responses to the credential POST.
CredentialPages == {Page(f, e) : f \in FormLists, e \in BOOLEAN}

\* Set-Cookie headers of one exchange: none, or one of the server's cookies.
SetCookies == {{}} \cup {{c} : c \in ServerCookies}

NoForm == Form("", "none", FALSE, FALSE)

\* soup.find("form")
FindForm(page) ==
    IF Len(page.forms) = 0 THEN [found |-> FALSE, form |-> NoForm]
    ELSE [found |-> TRUE, form |-> page.forms[1]]

\* soup.find("form", {"id": "login"})
FindLoginForm(page) ==
    IF \E i \in 1..Len(page.forms) : page.forms[i].id = "login"
    THEN [found |-> TRUE,
          form |-> page.forms[CHOOSE i \in 1..Len(page.forms) :
                       /\ page.forms[i].id = "login"
                       /\ \A k \in 1..(i - 1) : page.forms[k].id # "login"]]
    ELSE [found |-> FALSE, form |-> NoForm]

\* soup.find("form", method="post")
FindPostForm(page) ==
    IF \E i \in 1..Len(page.forms) : page.forms[i].post
    THEN [found |-> TRUE,
          form |-> page.forms[CHOOSE i \in 1..Len(page.forms) :
                       /\ page.forms[i].post
                       /\ \A k \in 1..(i - 1) : ~page.forms[k].post]]
    ELSE [found |-> FALSE, form |-> NoForm]

\* Step 2: intermediate_form and not intermediate_form.get("id") == "login"
HasIntermediateForm(page) ==
    FindForm(page).found /\ FindForm(page).form.id # "login"

\* Step 3: the form the credentials go to; found is FALSE on the
\* "already authenticated" branch.
DetectLoginForm(page) ==
    IF FindLoginForm(page).found THEN FindLoginForm(page)
    ELSE IF FindForm(page).found /\ FindForm(page).form.juser
         THEN FindForm(page)
         ELSE [found |-> FALSE, form |-> NoForm]

\* A page that presents a login form: a form with id "login" or a form
\* holding a j_username field.
PresentsLoginForm(page) ==
    \E i \in 1..Len(page.forms) :
        page.forms[i].id = "login" \/ page.forms[i].juser

\* requests raises MissingSchema (a RequestException) for a URL without a
\* scheme; steps 2 and 4 put the IdP host before an action starting with "/".
WithIdpHost(action) == IF action = "/rel" THEN "abs" ELSE action
HasSchema(url) == url = "abs"

\* cookie.name == "JSESSIONID" or cookie.name.startswith("_shibsession")
IsSessionCookie(c) == c.name = JSESSIONID \/ c.name[1] = "_shibsession"

\* has_cookies
HasSessionCookie(j) == \E c \in j : IsSessionCookie(c)

\* ------------------------------------------------------ cookie validator
\* The response to the validation GET: status, what the Location header
\* holds, and which substrings the lower-cased body holds in its first 1000
\* / 2000 characters.
ValidationResponses ==
    [status : {200, 302, 500},
     location : {"login", "sso", "home"},
     login1000 : BOOLEAN, form2000 : BOOLEAN, password2000 : BOOLEAN]

\* _validate_cookies, given the response
CookiesValid(r) ==
    IF /\ r.status \in {301, 302, 303}
       /\ r.location \in {"login", "sso"}
    THEN FALSE
    ELSE IF /\ r.login1000 /\ r.status = 200
            /\ r.form2000 /\ r.password2000
         THEN FALSE
         ELSE TRUE

\* What the validation GET gave, for the record of the call: "error" when
\* the request raised, "redirect" for a 301/302/303 whose Location holds
\* "login" or "sso", "form" for a 200 response with "<form" and "password"
\* in its first 2000 characters, "neither" for every other response.
Signal(fail, r) ==
    IF fail THEN "error"
    ELSE IF r.status \in {301, 302, 303} /\ r.location \in {"login", "sso"}
    THEN "redirect"
    ELSE IF r.status = 200 /\ r.form2000 /\ r.password2000
    THEN "form"
    ELSE "neither"

ValidationVerdictTrusting(fail, r) == IF fail THEN TRUE ELSE CookiesValid(r)

\* _validate_cookies: except Exception: return False
ValidationVerdict(fail, r) == IF fail THEN FALSE ELSE CookiesValid(r)

\* -------------------------------------------------------- ShibbolethAuth
\* The response in hand: its status, whether it has a Location header, and
\* the redirects followed so far in the exchange in progress (the length of
\* response.history).
NoResp == [status |-> 0, location |-> FALSE, hops |-> 0]

NoCallYet ==
    [n |-> 0, service |-> <<>>, key |-> <<>>, validate |-> FALSE, start |-> 0,
     hit |-> FALSE, cached |-> Absent, invalid |-> FALSE,
     deletes |-> 0, engineRuns |-> 0, network |-> FALSE,
     credPosts |-> 0, cacheWrites |-> 0, cleanStart |-> FALSE,
     noLoginForm |-> FALSE, credError |-> FALSE, redisplay |-> FALSE,
     signal |-> "none", body |-> EmptyDict, relayPosts |-> 0]

\* What a completed call gave: "ok" with the returned cookies or the name of
\* the exception, when it ended, and the expiry of the entry backing
\* storage then held under the call's key (-1 when it held none).
NoResult == [outcome |-> "none", cookies |-> {}, at |-> 0, expires |-> 0 - 1]

Outcome(outcome, cookies, t, kind, cache, fs, key) ==
    [outcome |-> outcome,
     cookies |-> IF outcome = "ok" THEN cookies ELSE {},
     at |-> t,
     expires |-> IF Stored(kind, cache, fs, key)
                 THEN StoredExpiry(kind, cache, fs, key)
                 ELSE 0 - 1]

IdleLogin ==
    /\ jar = {}
    /\ pc = "idle"
    /\ soup = EmptyPage
    /\ resp = NoResp
    /\ call = NoCallYet
    /\ result = NoResult

\* ------------------------------------------------- callers that run at once
Threads == {"t1", "t2"}

\* A thread between two calls: no call begun, nothing raised.
IdleThread ==
    [pc |-> "idle", op |-> "none", obj |-> Absent, exp |-> 0,
     read |-> NoEntry, ret |-> Absent, raised |-> "", lost |-> FALSE,
     did |-> {}, n |-> 0, ino |-> <<"", 0>>]

\* The _login calls a second thread makes on the authenticator.
FlowIds == {"f2"}

\* A _login call that has not begun.
IdleFlow == [pc |-> "idle", outcome |-> "none", cookies |-> {}]

\* One caller at a time: no thread and no second flow.
\* ------------------------------------------ constructors and credentials
\* A username or password as an argument or in the environment: not given,
\* the empty string, or a value.
CredentialValues == {"None", "", "u"}

\* not x
Falsy(x) == x \in {"None", ""}

\* x or y
Or(x, y) == IF Falsy(x) THEN y ELSE x

\* The classes that read SU_USERNAME and SU_PASSWORD.
CheckedClients ==
    {"DSVClient", "AsyncDSVClient", "DaisyClient", "AsyncDaisyClient",
     "HandledningClient", "AsyncHandledningClient", "ACTLabClient",
     "AsyncACTLabClient", "ClickmapClient", "AsyncClickmapClient",
     "MailClient"}
ClientClasses == CheckedClients \cup {"AsyncMailClient", "MailBot", "AsyncMailBot"}

\* MailClient.__init__ with an email address given.
MailClientInit(username, password, env_username, env_password) ==
    IF Falsy(Or(username, env_username)) \/ Falsy(Or(password, env_password))
    THEN "AuthenticationError"
    ELSE "constructed"

\* cls(username, password) with SU_USERNAME and SU_PASSWORD as given: the
\* exception __init__ raises, or "constructed".
Construct(cls, username, password, env_username, env_password) ==
    CASE cls \in CheckedClients ->
             MailClientInit(username, password, env_username, env_password)
      [] cls = "AsyncMailClient" ->
             \* the arguments are stored as they are
             "constructed"
      [] cls \in {"MailBot", "AsyncMailBot"} ->
             IF \/ Falsy(Or(username, env_username))
                \/ Falsy(Or(password, env_password))
             THEN "ValueError"
             ELSE \* MailClient(**self._mail_client_params): MailClient has
                  \* no email_name parameter
                  "TypeError"

NotMade == [cls |-> "none", username |-> "None", password |-> "None",
            env_username |-> "None", env_password |-> "None",
            outcome |-> "none", entered |-> "none"]

\* ----------------------------------------------------------------- MailBot
\* The callbacks registered with on_new_email and on_error, in the order of
\* registration.
Callbacks == {1, 2}
ErrorCallbacks == {1, 2}

\* The ids of the emails of the folder, and the lists get_emails returns:
\* one or two emails, in any order, the same email twice included.
EmailIds == 1..MaxEmails
EmailLists == UNION {[1..n -> EmailIds] : n \in 1..2}

\* self._max_backoff
max_backoff == 32

\* min(2**self._backoff_attempts, self._max_backoff)
Backoff(backoff_attempts) ==
    IF 2^backoff_attempts < max_backoff THEN 2^backoff_attempts
    ELSE max_backoff

\* The bot after __init__: _stop_event clear, _running False, the IDLE
\* handler not connected and _idle_supported True.  pc is the position of
\* the thread in start(); the rest records what stop() and the last
\* _emit_event did.
NewBot(enable_polling_fallback) ==
    [pc |-> "new", stop_event |-> FALSE, running |-> FALSE,
     idle_supported |-> TRUE, mailbox |-> FALSE,
     polling |-> enable_polling_fallback,
     stopCalled |-> FALSE, stopDuring |-> FALSE, fatal |-> FALSE,
     emitted |-> FALSE, received |-> {}, failed |-> {},
     errorCalls |-> [e \in ErrorCallbacks |-> 0], flags |-> {},
     seen_email_ids |-> {},
     calls |-> [c \in Callbacks |-> [i \in EmailIds |-> 0]],
     skipped |-> {}, raisedFor |-> {},
     backoff_attempts |-> 0, slept |-> 0,
     idleTick |-> FALSE, processTick |-> FALSE]

EventCallsUntilRaise(raising) ==
    {c \in Callbacks : \A r \in raising : c <= r}

\* _emit_event: the callbacks that are called with the event when the
\* callbacks in raising raise; each call is in its own try/except Exception.
EventCalls(raising) == Callbacks

\* _emit_error: the error callbacks that are called with a BotError when the
\* error callbacks in raising raise; each call is in its own try/except.
ErrorCalls(raising) == ErrorCallbacks

\* _emit_error(BotError(..., recoverable)) , n times
EmitError(b, n, recoverable, eraising) ==
    [b EXCEPT !.errorCalls = [e \in ErrorCallbacks |->
                                IF e \in ErrorCalls(eraising) THEN @[e] + n
                                                              ELSE @[e]],
              !.flags = IF n > 0 THEN @ \cup {recoverable} ELSE @,
              !.fatal = @ \/ (n > 0 /\ ~recoverable)]

\* The record of a delivery is that of the last _emit_event only.
NoDelivery(b) ==
    [b EXCEPT !.emitted = FALSE, !.received = {}, !.failed = {},
              !.errorCalls = [e \in ErrorCallbacks |-> 0], !.flags = {},
              !.skipped = {}]

\* _emit_event(event) for the email with the id, lines 282-299.  calls
\* counts the calls of each callback for each id, up to 2.
EmitEvent(b, id, raising, eraising) ==
    LET called == EventCalls(raising)
        d == [b EXCEPT
                 !.emitted = TRUE, !.received = called,
                 !.failed = called \cap raising,
                 !.errorCalls = [e \in ErrorCallbacks |-> 0], !.flags = {},
                 !.raisedFor = IF called \cap raising # {} THEN @ \cup {id}
                               ELSE @,
                 !.calls = [c \in Callbacks |->
                              IF c \in called /\ @[c][id] < 2
                              THEN [@[c] EXCEPT ![id] = @ + 1]
                              ELSE @[c]]]
    IN EmitError(d, Cardinality(called \cap raising), TRUE, eraising)

SeenForgets(seen_email_ids, id) == seen_email_ids

\* self._seen_email_ids.add(email.id)
Seen(seen_email_ids, id) == seen_email_ids \cup {id}

\* The loop of lines 264-272 over the emails fetched.
RECURSIVE EmitNew(_, _, _, _)
EmitNew(b, emails, raising, eraising) ==
    IF emails = <<>> THEN b
    ELSE IF Head(emails) \in b.seen_email_ids
    THEN EmitNew([b EXCEPT !.skipped = @ \cup {Head(emails)}],
                 Tail(emails), raising, eraising)
    ELSE EmitNew(EmitEvent([b EXCEPT !.seen_email_ids =
                                        Seen(@, Head(emails))],
                           Head(emails), raising, eraising),
                 Tail(emails), raising, eraising)

NotTwin == [pc |-> "none", entered |-> FALSE, outcome |-> "none",
            cookies |-> {}, stored |-> FALSE]

NoCallers ==
    /\ threads = [t \in Threads |-> IdleThread]
    /\ flows = [f \in FlowIds |-> IdleFlow]
    /\ made = NotMade
    /\ bot = NewBot(TRUE)
    /\ twin = NotTwin

InitCache ==
    /\ NoCallers
    /\ backend \in {"null", "memory", "file"}
    /\ default_ttl \in 1..MaxTtl
    /\ memCache = [k \in Keys |-> NoEntry]
    /\ files = [p \in Paths |-> NoEntry]
    /\ now = 0
    /\ last = NoCall
    /\ prev = NoCall
    /\ cache_ttl = 1
    /\ IdleLogin

\* cache.set(key, cookies, ttl)
CacheSet(key, obj, ttl) ==
    LET r == BackendSet(backend, memCache, files, key, obj, ttl, default_ttl, now, jar)
    IN /\ memCache' = r.cache
       /\ files' = r.files
       /\ prev' = NoCall
       /\ last' = [op |-> "set", key |-> key, obj |-> obj, ttl |-> ttl,
                   at |-> now, ret |-> Absent, stale |-> FALSE, err |-> "",
                   malformed |-> FALSE]
       /\ UNCHANGED <<made, bot, twin, threads, flows, backend, default_ttl, now>>
       /\ UNCHANGED loginVars

\* cache.get(key)
CacheGet(key) ==
    LET r == BackendGet(backend, memCache, files, key, now)
    IN /\ memCache' = r.cache
       /\ files' = r.files
       /\ prev' = IF last.op = "set" THEN last ELSE NoCall
       /\ last' = [op |-> "get", key |-> key, obj |-> Absent, ttl |-> NoTtl,
                   at |-> now, ret |-> r.ret,
                   stale |-> /\ Stored(backend, memCache, files, key)
                             /\ ExpiryReadable(backend, memCache, files, key)
                             /\ now > StoredExpiry(backend, memCache, files, key),
                   err |-> r.err,
                   malformed |-> /\ backend = "file"
                                 /\ IsMalformed(files[GetCachePath(key)])]
       /\ UNCHANGED <<made, bot, twin, threads, flows, backend, default_ttl, now>>
       /\ UNCHANGED loginVars

\* cache.delete(key)
CacheDelete(key) ==
    LET r == BackendDelete(backend, memCache, files, key)
    IN /\ memCache' = r.cache
       /\ files' = r.files
       /\ prev' = NoCall
       /\ last' = [op |-> "delete", key |-> key, obj |-> Absent, ttl |-> NoTtl,
                   at |-> now, ret |-> Absent, stale |-> FALSE, err |-> "",
                   malformed |-> FALSE]
       /\ UNCHANGED <<made, bot, twin, threads, flows, backend, default_ttl, now>>
       /\ UNCHANGED loginVars

\* cache.clear()
CacheClear ==
    LET r == BackendClear(backend, memCache, files)
    IN /\ memCache' = r.cache
       /\ files' = r.files
       /\ prev' = NoCall
       /\ last' = [op |-> "clear", key |-> <<>>, obj |-> Absent, ttl |-> NoTtl,
                   at |-> now, ret |-> Absent, stale |-> FALSE, err |-> "",
                   malformed |-> FALSE]
       /\ UNCHANGED <<made, bot, twin, threads, flows, backend, default_ttl, now>>
       /\ UNCHANGED loginVars

\* Something other than set() leaves a malformed file at the path of a key
\* (a crash in the middle of a write, another program, an older version).
Corrupt(key, kind) ==
    /\ backend = "file"
    /\ pc = "idle"
    /\ files' = [files EXCEPT ![GetCachePath(key)] =
                     Malformed(kind, MaxTime + 1, 1)]
    /\ prev' = NoCall
    /\ last' = NoCall
    /\ UNCHANGED <<made, bot, twin, threads, flows, backend, default_ttl, memCache, now>>
    /\ UNCHANGED loginVars

\* Time passes between two calls.
Tick ==
    /\ pc = "idle"
    /\ now < MaxTime
    /\ now' = now + 1
    /\ UNCHANGED <<made, bot, twin, threads, flows, backend, default_ttl, memCache, files, last, prev>>
    /\ UNCHANGED loginVars

\* The objects callers store in the model: two jars and a dict.
CallerObjects ==
    { JarVal({Cookie(JSESSIONID, "v1", "idp.it.su.se")}),
      JarVal({Cookie(JSESSIONID, "v2", "idp.it.su.se"), Cookie(LANG, "v1", "dsv.su.se")}),
      DictVal({Cookie(LANG, "v2", "")}) }

NextCache ==
    \/ \E k \in CallerKeys, obj \in CallerObjects, ttl \in {NoTtl} \cup 0..MaxTtl :
          CacheSet(k, obj, ttl)
    \/ \E k \in CallerKeys : CacheGet(k)
    \/ \E k \in CallerKeys : CacheDelete(k)
    \/ CacheClear
    \/ \E k \in CallerKeys, kind \in EarlyKinds \cup LateKinds :
          Corrupt(k, kind)
    \/ Tick

SpecCache == InitCache /\ [][NextCache]_vars

\* ------------------------------------------------------------------- C1
\* C1 as stated: on every backend, the no-op one included, a get directly
\* after set(k, c, ttl), with no time passed, returns a cookie set with the
\* name/value/domain/path tuples of c.
C1_RoundTripEveryBackend ==
    (/\ last.op = "get" /\ prev.op = "set"
     /\ prev.key = last.key /\ prev.at = last.at
     /\ ~prev.obj.dict)
        => (/\ ~last.ret.absent
            /\ Tuples(last.ret, jar) = prev.obj.cookies)

\* C1 amended: on the in-memory and the file backend, a get that directly
\* follows set(k, c, ttl) with an effective ttl of at least one second, not
\* later than ttl seconds after it, returns a cookie set with the tuples of
\* c; on the no-op backend that get returns absent.
C1_RoundTrip ==
    (/\ last.op = "get" /\ prev.op = "set"
     /\ prev.key = last.key
     /\ ~prev.obj.dict)
        => /\ (/\ backend \in {"memory", "file"}
               /\ EffectiveTtl(prev.ttl, default_ttl) >= 1
               /\ last.at <= prev.at + EffectiveTtl(prev.ttl, default_ttl))
                  => (/\ ~last.ret.absent
                      /\ Tuples(last.ret, jar) = prev.obj.cookies)
           /\ backend = "null" => last.ret.absent

C1_Witness ==
    /\ backend = "file"
    /\ last.op = "get" /\ prev.op = "set" /\ prev.key = last.key
    /\ ~prev.obj.dict
    /\ last.at > prev.at
    /\ ~last.ret.absent
    /\ Cardinality(Tuples(last.ret, jar)) = 2

\* ------------------------------------------------------------------- C2
\* C2: a get that finds an entry whose expiry time is in the past returns
\* absent and leaves nothing in backing storage under that key (no map
\* entry, no file), so a later get cannot read the stale data again.
C2_LazyExpiry ==
    (last.op = "get" /\ last.stale)
        => (/\ last.ret.absent
            /\ ~Stored(backend, memCache, files, last.key))

C2_Witness ==
    /\ last.op = "get" /\ last.stale
    /\ prev.op = "set" /\ prev.key = last.key
    /\ backend = "file"
    /\ last.at > prev.at + EffectiveTtl(prev.ttl, default_ttl)

\* ------------------------------------------------ ShibbolethAuth._login
\* cache_backend if cache_backend is not None else NullCache()
CacheBackendOrDefault(cache_backend) ==
    IF cache_backend = "None" THEN "null" ELSE cache_backend

InitLogin ==
    /\ NoCallers
    /\ backend \in {CacheBackendOrDefault(b) : b \in {"None", "memory", "file"}}
    /\ default_ttl = MaxTtl
    /\ cache_ttl \in {1, MaxTtl}
    /\ memCache = [k \in Keys |-> NoEntry]
    /\ files = [p \in Paths |-> NoEntry]
    /\ now = 0
    /\ last = NoCall
    /\ prev = NoCall
    /\ IdleLogin

\* response.status_code in (301, 302, 303)
IsRedirect(status) == status \in {301, 302, 303}

ReturnsUnvalidatedNever(hit, validate_cache) == FALSE

\* Lines 67-83: a cache hit is returned as it is when validate_cache is off.
ReturnsUnvalidated(hit, validate_cache) == hit /\ ~validate_cache

StoreTtlDefault(ttl) == NoTtl

\* ttl=self.cache_ttl
StoreTtl(ttl) == ttl

OnInvalidKeepJar(kind, cache, fs, key, j) ==
    [cache |-> BackendDelete(kind, cache, fs, key).cache,
     files |-> BackendDelete(kind, cache, fs, key).files,
     jar |-> j]

\* Lines 78-80: self.cache_backend.delete(cache_key); self.session.cookies.clear()
OnInvalid(kind, cache, fs, key, j) ==
    [cache |-> BackendDelete(kind, cache, fs, key).cache,
     files |-> BackendDelete(kind, cache, fs, key).files,
     jar |-> {}]

\* The call ends (a return or a raise) with session jar j and call record c;
\* memCache' and files' are set by the step that ends the call.
Return(outcome, obj, j, c) ==
    /\ pc' = "idle"
    /\ jar' = j
    /\ call' = c
    /\ soup' = EmptyPage
    /\ resp' = NoResp
    /\ result' = Outcome(outcome, Deref(obj, j), now,
                          backend, memCache', files', c.key)
    /\ UNCHANGED <<made, bot, twin, threads, flows, backend, default_ttl, now, last, prev, cache_ttl>>

\* Lines 88-95: _perform_login returned the session jar; it is stored under
\* the key with ttl=self.cache_ttl and returned.
EngineSuccess(j, c) ==
    LET w == BackendSet(backend, memCache, files, c.key, SessionRef,
                        StoreTtl(cache_ttl), default_ttl, now, j)
    IN /\ memCache' = w.cache
       /\ files' = w.files
       /\ Return("ok", SessionRef, j, [c EXCEPT !.cacheWrites = @ + 1])

\* Lines 97-99 and the exceptions that pass through: _perform_login raised.
EngineFailure(outcome, j, c) ==
    /\ UNCHANGED <<memCache, files>>
    /\ Return(outcome, Absent, j, c)

\* Lines 278-291: the verification of the session jar that ends the flow.
Verify(j, c) ==
    IF HasSessionCookie(j)
    THEN EngineSuccess(j, c)
    ELSE EngineFailure("AuthenticationError", j, c)

\* _login(service, validate_cache), lines 62-83: the cache lookup.
LoginStart(service, validate_cache) ==
    /\ pc = "idle"
    /\ call.n < MaxCalls
    /\ LET key == CacheKey(USERNAME, service)
           g == BackendGet(backend, memCache, files, key, now)
           hit == ~g.ret.absent
           j == IF hit THEN JarUpdate(jar, Deref(g.ret, jar)) ELSE jar
           c == [NoCallYet EXCEPT !.n = call.n + 1,
                                  !.service = service, !.key = key,
                                  !.validate = validate_cache, !.start = now,
                                  !.hit = hit, !.cached = g.ret]
       IN /\ memCache' = g.cache
          /\ files' = g.files
          /\ IF g.err # ""
             THEN \* cache_backend.get raised: the call ends with it
                  /\ pc' = "idle"
                  /\ jar' = jar
                  /\ call' = c
                  /\ soup' = EmptyPage
                  /\ resp' = NoResp
                  /\ result' = Outcome(g.err, {}, now,
                                        backend, g.cache, g.files, key)
             ELSE IF ReturnsUnvalidated(hit, validate_cache)
             THEN /\ pc' = "idle"
                  /\ jar' = j
                  /\ call' = c
                  /\ soup' = EmptyPage
                  /\ resp' = NoResp
                  /\ result' = Outcome("ok", Deref(g.ret, j), now,
                                        backend, g.cache, g.files, key)
             ELSE /\ pc' = IF hit THEN "validate" ELSE "initiate"
                  /\ jar' = j
                  /\ call' = c
                  /\ UNCHANGED <<soup, resp, result>>
          /\ UNCHANGED <<made, bot, twin, threads, flows, backend, default_ttl, now, last, prev, cache_ttl>>

\* Lines 72-80 with _validate_cookies, lines 110-134: one GET with redirects
\* off; fail is an exception of the request.
Validate(fail, r, sc) ==
    /\ pc = "validate"
    /\ LET c == [call EXCEPT !.network = TRUE, !.signal = Signal(fail, r)]
           j == IF fail THEN jar ELSE JarUpdate(jar, sc)
       IN IF ValidationVerdict(fail, r)
          THEN /\ UNCHANGED <<memCache, files>>
               /\ Return("ok", c.cached, j, c)
          ELSE LET o == OnInvalid(backend, memCache, files, c.key, j)
               IN /\ memCache' = o.cache
                  /\ files' = o.files
                  /\ jar' = o.jar
                  /\ pc' = "initiate"
                  /\ call' = [c EXCEPT !.invalid = TRUE, !.deletes = @ + 1]
                  /\ UNCHANGED <<made, bot, twin, threads, flows, backend, default_ttl, now, last, prev,
                                 cache_ttl, soup, resp, result>>

\* logout(), lines 328-331: self.session.cookies.clear() and
\* self.cache_backend.clear().  The record of the last call is reset; result
\* keeps that a logout came last and the expiry of the entry the backend
\* held under that call's key before it was cleared (-1 when it held none).
Logout ==
    /\ pc = "idle"
    /\ result.outcome # "logout"
    /\ LET r == BackendClear(backend, memCache, files)
       IN /\ memCache' = r.cache
          /\ files' = r.files
    /\ jar' = {}
    /\ call' = [NoCallYet EXCEPT !.n = call.n]
    /\ result' = [outcome |-> "logout", cookies |-> {}, at |-> now,
                  expires |-> IF /\ call.n >= 1
                                 /\ Stored(backend, memCache, files, call.key)
                              THEN StoredExpiry(backend, memCache, files, call.key)
                              ELSE 0 - 1]
    /\ UNCHANGED <<made, bot, twin, threads, flows, backend, default_ttl, now, last, prev, cache_ttl,
                   pc, soup, resp>>

\* -------------------------------------------- ShibbolethAuth._perform_login
\* Step 1, lines 165-176: GET the service URL, redirects followed.  fail is
\* a RequestException of the exchange (connection, timeout, redirect limit).
Initiate(fail, page, sc) ==
    /\ pc = "initiate"
    /\ LET c0 == [call EXCEPT !.engineRuns = @ + 1,
                              !.cleanStart =
                                  /\ ~Stored(backend, memCache, files, call.key)
                                  /\ jar = {}]
           c == [c0 EXCEPT !.network = TRUE]
       IN IF ~HasSsoTarget(call.service)
          THEN \* _get_service_url: raise ValueError
               EngineFailure("ValueError", jar, c0)
          ELSE IF fail
          THEN EngineFailure("NetworkError", jar, c)
          ELSE /\ jar' = JarUpdate(jar, sc)
               /\ soup' = page
               /\ call' = c
               /\ pc' = IF HasIntermediateForm(page) THEN "intermediate"
                                                     ELSE "credential"
               /\ resp' = NoResp
               /\ UNCHANGED <<made, bot, twin, threads, flows, backend, default_ttl, memCache, files, now,
                              last, prev, cache_ttl, result>>

\* Step 2, lines 178-197: the first form of the page is not the login form;
\* it is posted to its action.
Intermediate(fail, page, sc) ==
    /\ pc = "intermediate"
    /\ LET action == FindForm(soup).form.action
       IN IF action = "none"
          THEN \* form_action.startswith on None
               EngineFailure("AttributeError", jar, call)
          ELSE IF ~HasSchema(WithIdpHost(action))
          THEN EngineFailure("NetworkError", jar, call)
          ELSE IF fail
          THEN EngineFailure("NetworkError", jar,
                             [call EXCEPT !.network = TRUE])
          ELSE /\ jar' = JarUpdate(jar, sc)
               /\ soup' = page
               /\ call' = [call EXCEPT !.network = TRUE]
               /\ pc' = "credential"
               /\ resp' = NoResp
               /\ UNCHANGED <<made, bot, twin, threads, flows, backend, default_ttl, memCache, files, now,
                              last, prev, cache_ttl, result>>

AfterCredentialAgain(status) ==
    IF IsRedirect(status) THEN "follow" ELSE "credential"

\* Lines 255-262: a 301/302/303 answer to the credential POST is followed
\* (step 5); every other answer goes straight to step 6.
AfterCredential(status) == IF IsRedirect(status) THEN "follow" ELSE "relay"

\* Steps 3 and 4, lines 199-253: find the login form and post the
\* credentials to it, redirects not followed.  r is the response: its
\* status, whether it has a Location header, its body and its cookies.
Credential(fail, status, location, page, sc) ==
    /\ pc = "credential"
    /\ IsRedirect(status) => page = EmptyPage
    /\ LET d == DetectLoginForm(soup)
           c0 == [call EXCEPT !.noLoginForm = ~PresentsLoginForm(soup)]
           c1 == [c0 EXCEPT !.network = TRUE, !.credPosts = @ + 1,
                            !.body = LoginData(d.form, UsernameText, PASSWORD)]
           c2 == [c1 EXCEPT !.credError = page.error]
       IN IF ~d.found
          THEN \* return self.session.cookies
               EngineSuccess(jar, c0)
          ELSE IF d.form.action = "none"
          THEN EngineFailure("AuthenticationError", jar, c0)
          ELSE IF ~HasSchema(WithIdpHost(d.form.action))
          THEN EngineFailure("NetworkError", jar, c0)
          ELSE IF fail
          THEN EngineFailure("NetworkError", jar, c1)
          ELSE IF status = 200 /\ page.error
          THEN EngineFailure("AuthenticationError", JarUpdate(jar, sc), c2)
          ELSE /\ jar' = JarUpdate(jar, sc)
               /\ soup' = page
               /\ resp' = [status |-> status, location |-> location, hops |-> 0]
               /\ pc' = AfterCredential(status)
               /\ call' = IF IsRedirect(status)
                          THEN c2
                          ELSE [c2 EXCEPT !.redisplay = PresentsLoginForm(page)]
               /\ UNCHANGED <<made, bot, twin, threads, flows, backend, default_ttl, memCache, files, now,
                              last, prev, cache_ttl, result>>

\* Step 5, lines 255-258: GET the Location of the redirect, redirects
\* followed.
Follow(fail, page, sc) ==
    /\ pc = "follow"
    /\ IF ~resp.location
       THEN \* response.headers["Location"] on a response without it
            EngineFailure("KeyError", jar, call)
       ELSE IF fail
       THEN EngineFailure("NetworkError", jar, [call EXCEPT !.network = TRUE])
       ELSE /\ jar' = JarUpdate(jar, sc)
            /\ soup' = page
            /\ pc' = "relay"
            /\ call' = [call EXCEPT !.network = TRUE,
                                    !.redisplay = PresentsLoginForm(page)]
            /\ resp' = [resp EXCEPT !.hops = 0]
            /\ UNCHANGED <<made, bot, twin, threads, flows, backend, default_ttl, memCache, files, now,
                           last, prev, cache_ttl, result>>

\* Step 6 and the verification, lines 260-291: the first method="post" form
\* of the page, if any, is posted to its action as it is written; then the
\* session jar decides the outcome.
Relay(fail, sc) ==
    /\ pc = "relay"
    /\ LET f == FindPostForm(soup)
       IN IF ~f.found
          THEN Verify(jar, call)
          ELSE IF ~HasSchema(f.form.action)
          THEN EngineFailure("NetworkError", jar, call)
          ELSE IF fail
          THEN EngineFailure("NetworkError", jar,
                             [call EXCEPT !.network = TRUE,
                                          !.relayPosts = @ + 1])
          ELSE Verify(JarUpdate(jar, sc),
                      [call EXCEPT !.network = TRUE, !.relayPosts = @ + 1])

\* Whether the step the flow is at sends a request: the service has a URL,
\* the form to post was found and its action, as the step builds it, is a
\* URL with a scheme.
SendsRequest ==
    CASE pc = "initiate" -> HasSsoTarget(call.service)
      [] pc = "intermediate" ->
            /\ FindForm(soup).form.action # "none"
            /\ HasSchema(WithIdpHost(FindForm(soup).form.action))
      [] pc = "credential" ->
            /\ DetectLoginForm(soup).found
            /\ DetectLoginForm(soup).form.action # "none"
            /\ HasSchema(WithIdpHost(DetectLoginForm(soup).form.action))
      [] pc = "follow" -> resp.location
      [] pc = "relay" ->
            /\ FindPostForm(soup).found
            /\ HasSchema(FindPostForm(soup).form.action)
      [] OTHER -> FALSE

\* The server answers a request of lines 171, 196, 258 or 276 with a
\* redirect.  These requests follow redirects (allow_redirects is on or left
\* at its default), up to the redirect limit of the session; one more
\* redirect raises TooManyRedirects, a RequestException, which lines 97-99
\* turn into NetworkError.
Redirect(sc) ==
    /\ SendsRequest
    /\ pc # "credential"
    /\ LET c0 == IF pc = "initiate"
                 THEN [call EXCEPT !.engineRuns = @ + 1,
                                   !.cleanStart =
                                       /\ ~Stored(backend, memCache, files, call.key)
                                       /\ jar = {}]
                 ELSE call
           c == [c0 EXCEPT !.network = TRUE]
       IN IF resp.hops >= MaxRedirects
          THEN EngineFailure("NetworkError", JarUpdate(jar, sc), c)
          ELSE /\ resp' = [resp EXCEPT !.hops = @ + 1]
               /\ jar' = JarUpdate(jar, sc)
               /\ call' = [call EXCEPT !.network = TRUE]
               /\ UNCHANGED <<made, bot, twin, threads, flows, backend, default_ttl, memCache, files, now,
                              last, prev, cache_ttl, pc, soup, result>>

\* The server accepts a request of lines 171, 196, 243, 258 or 276 and sends
\* nothing more.  These requests pass no timeout, so the call waits in the
\* read for as long as the connection stays open.
Hang ==
    /\ SendsRequest
    /\ pc' = "blocked"
    /\ call' = [call EXCEPT !.network = TRUE]
    /\ UNCHANGED <<made, bot, twin, threads, flows, backend, default_ttl, memCache, files, now,
                   last, prev, cache_ttl, jar, soup, resp, result>>

\* A response the model does not look into: the exchange raised.
NoPage == EmptyPage
NoCookies == {}
NoValidationResponse ==
    [status |-> 0, location |-> "home", login1000 |-> FALSE,
     form2000 |-> FALSE, password2000 |-> FALSE]

\* The steps of _perform_login against servers that answer with the given
\* pages.
EngineSteps(pages, credentialPages, setCookies) ==
    \/ \E page \in pages, sc \in setCookies : Initiate(FALSE, page, sc)
    \/ Initiate(TRUE, NoPage, NoCookies)
    \/ \E page \in pages, sc \in setCookies : Intermediate(FALSE, page, sc)
    \/ Intermediate(TRUE, NoPage, NoCookies)
    \/ \E status \in {200, 302, 401}, location \in BOOLEAN,
          page \in credentialPages, sc \in setCookies :
          /\ location \/ IsRedirect(status)
          /\ Credential(FALSE, status, location, page, sc)
    \/ Credential(TRUE, 0, FALSE, NoPage, NoCookies)
    \/ \E page \in pages, sc \in setCookies : Follow(FALSE, page, sc)
    \/ Follow(TRUE, NoPage, NoCookies)
    \/ \E sc \in setCookies : Relay(FALSE, sc)
    \/ Relay(TRUE, NoCookies)

\* Time passes within a _login call, while the flow waits for the page it
\* looks for the login form in.
TickInFlow ==
    /\ pc = "credential"
    /\ now < MaxTime
    /\ now' = now + 1
    /\ UNCHANGED <<made, bot, twin, threads, flows, backend, default_ttl, memCache, files, last, prev>>
    /\ UNCHANGED loginVars

\* One _login call of a new authenticator, against every server of the
\* model.
NextEngine ==
    \/ \E s \in EngineServices, v \in BOOLEAN :
          call.n = 0 /\ LoginStart(s, v)
    \/ EngineSteps(Pages, CredentialPages, SetCookies)
    \/ Tick
    \/ TickInFlow

SpecEngine == InitLogin /\ [][NextEngine]_vars

\* The pages of the servers the authenticator meets over several calls: a
\* page without a form, the login page, a page whose first form has no
\* action, and the login page shown again with an error.
FacadePages == {Page(<<>>, FALSE), Page(<<LoginForm>>, FALSE),
                Page(<<LocalStorageFormNoAction>>, FALSE)}
FacadeCredentialPages == {Page(<<>>, FALSE), Page(<<LoginForm>>, TRUE)}
FacadeKinds == {"not_json", "not_object"}
FacadeSetCookies == {{}, {Cookie(JSESSIONID, "v1", "idp.it.su.se")}}

\* Up to MaxCalls _login calls of one authenticator, one after the other.
Next ==
    \/ \E s \in Services, v \in BOOLEAN : LoginStart(s, v)
    \/ \E r \in ValidationResponses, sc \in FacadeSetCookies :
          Validate(FALSE, r, sc)
    \/ Validate(TRUE, NoValidationResponse, NoCookies)
    \/ EngineSteps(FacadePages, FacadeCredentialPages, FacadeSetCookies)
    \/ Logout
    \/ \E kind \in FacadeKinds :
          /\ call.n = 0 /\ result.outcome = "none"
          /\ Corrupt(CacheKey(USERNAME, HANDLEDNING), kind)
    \/ Tick

Spec == InitLogin /\ [][Next]_vars

\* One _login call against servers that also redirect or fall silent.  Every
\* server of the model that answers does so eventually, and a step of the
\* flow that can be taken is taken.
NextRedirects ==
    \/ call.n = 0 /\ LoginStart(DAISY_STAFF, FALSE)
    \/ EngineSteps(FacadePages, FacadeCredentialPages, FacadeSetCookies)
    \/ \E sc \in FacadeSetCookies : Redirect(sc)
    \/ Hang

SpecRedirects ==
    InitLogin /\ [][NextRedirects]_vars /\ WF_vars(NextRedirects)

\* -------------------------------------------- AsyncShibbolethAuth.login
\* login(service) of an AsyncShibbolethAuth built with the same arguments
\* as the authenticator of the model, lines 393-417.  __init__ sets
\* cache_backend and cache_ttl; login reads self.use_cache and self.cache,
\* which no statement of the class sets.
AsyncLogin(service, entered) ==
    /\ twin.pc = "none"
    /\ twin' = [pc |-> "done",
                entered |-> entered,
                outcome |-> IF ~entered THEN "RuntimeError"
                            ELSE "AttributeError",
                cookies |-> {},
                stored |-> FALSE]
    /\ UNCHANGED <<cacheVars, loginVars, threads, flows, made, bot>>

\* One _login call of the authenticator and one login call of its async
\* counterpart for the same service, each with its own cache backend, empty
\* at the start, against the same servers.
NextAsync ==
    \/ \E v \in BOOLEAN : call.n = 0 /\ LoginStart(DAISY_STAFF, v)
    \/ EngineSteps(FacadePages, FacadeCredentialPages, FacadeSetCookies)
    \/ \E entered \in BOOLEAN : AsyncLogin(DAISY_STAFF, entered)

SpecAsync == InitLogin /\ [][NextAsync]_vars

\* ------------------------------------------------- constructing a client
\* The authenticator of the runs that do not log in.
NoLogin ==
    /\ backend = "null"
    /\ default_ttl = MaxTtl
    /\ cache_ttl = MaxTtl
    /\ memCache = [k \in Keys |-> NoEntry]
    /\ files = [q \in Paths |-> NoEntry]
    /\ now = 0
    /\ last = NoCall
    /\ prev = NoCall
    /\ IdleLogin
    /\ threads = [t \in Threads |-> IdleThread]
    /\ flows = [f \in FlowIds |-> IdleFlow]
    /\ twin = NotTwin

InitConstruct ==
    /\ NoLogin
    /\ bot = NewBot(TRUE)
    /\ made \in [cls : ClientClasses, username : CredentialValues,
                  password : CredentialValues,
                  env_username : CredentialValues,
                  env_password : CredentialValues,
                  outcome : {"none"}, entered : {"none"}]

\* cls(username=..., password=...)
ConstructClient ==
    /\ made.outcome = "none"
    /\ made' = [made EXCEPT !.outcome =
                    Construct(made.cls, made.username, made.password,
                              made.env_username, made.env_password)]
    /\ UNCHANGED <<cacheVars, loginVars, threads, flows, bot, twin>>

\* AsyncMailClient.__aenter__, lines 683-689: the MailClient is constructed
\* here, then connected.
AsyncEnter(connects) ==
    /\ made.cls = "AsyncMailClient"
    /\ made.outcome = "constructed"
    /\ made.entered = "none"
    /\ LET c == MailClientInit(made.username, made.password,
                               made.env_username, made.env_password)
       IN made' = [made EXCEPT !.entered =
                       IF c # "constructed" THEN c
                       ELSE IF connects THEN "connected" ELSE "NetworkError"]
    /\ UNCHANGED <<cacheVars, loginVars, threads, flows, bot, twin>>

NextConstruct ==
    \/ ConstructClient
    \/ \E connects \in BOOLEAN : AsyncEnter(connects)

SpecConstruct == InitConstruct /\ [][NextConstruct]_vars

\* ---------------------------------------------- MailBot.start and stop
\* One bot with two new-email callbacks and two error callbacks.  One thread
\* runs start(); another calls stop() once, at any moment.
InitBot ==
    /\ NoLogin
    /\ made = NotMade
    /\ bot \in {NewBot(f) : f \in BOOLEAN}

BotFrame ==
    UNCHANGED <<cacheVars, loginVars, threads, flows, made, twin>>

UnsupportedAlwaysPolls(b, inLoop, eraising) == [b EXCEPT !.pc = "poll"]

\* Where start() goes once IDLE is found unsupported, lines 145-162: into
\* the polling loop, or out with a BotError that is not recoverable.
\* Where the IDLE loop goes then, lines 180-184 and 189-193: into the
\* polling loop, or out by a plain return.
Unsupported(b, inLoop, eraising) ==
    IF b.polling THEN [b EXCEPT !.pc = "poll"]
    ELSE IF inLoop THEN [b EXCEPT !.pc = "done"]
    ELSE [EmitError(b, 1, FALSE, eraising) EXCEPT !.pc = "raised"]

\* start(), line 122: self._running = True
Start ==
    /\ bot.pc = "new"
    /\ bot' = [bot EXCEPT !.pc = "clear", !.running = TRUE]
    /\ BotFrame

\* start(), line 123: self._stop_event.clear()
StartClear ==
    /\ bot.pc = "clear"
    /\ bot' = [bot EXCEPT !.pc = "connect", !.stop_event = FALSE]
    /\ BotFrame

\* start(), lines 125-164: connect the mail client and the IDLE handler,
\* try IDLE, and enter one of the loops.
Connect(connects, idle, eraising) ==
    /\ bot.pc = "connect"
    /\ bot' = IF ~connects
              THEN [EmitError(bot, 1, FALSE, eraising) EXCEPT !.pc = "raised"]
              ELSE IF ~idle
              THEN Unsupported([bot EXCEPT !.mailbox = TRUE,
                                           !.backoff_attempts = 0,
                                           !.idle_supported = FALSE],
                               FALSE, eraising)
              ELSE [bot EXCEPT !.mailbox = TRUE, !.backoff_attempts = 0,
                               !.pc = "idle"]
    /\ BotFrame

\* _process_new_emails as the loops call it: fetched is "none" (get_emails
\* returned no email), "event" (it returned the emails given) or the kind
\* of exception it raised.
Process(b, fetched, emails, raising, eraising) ==
    LET p == [NoDelivery(b) EXCEPT !.processTick = ~@]
    IN IF fetched = "event" THEN EmitNew(p, emails, raising, eraising)
       ELSE p

\* One pass of _poll_loop, lines 239-254.
PollPass(fetched, emails, raising, eraising) ==
    /\ bot.pc = "poll"
    /\ bot' = IF bot.stop_event THEN [NoDelivery(bot) EXCEPT !.pc = "done"]
              ELSE IF fetched \in {"none", "event"}
              THEN Process(bot, fetched, emails, raising, eraising)
              ELSE EmitError(Process(bot, "none", emails, raising, eraising),
                             1, TRUE, eraising)
    /\ BotFrame

\* One pass of _idle_loop, lines 177-233, up to the reconnect.  update is
\* what wait_for_update did: "update", "timeout", or "failed" when the wait
\* raised and the handler marked IDLE unsupported.
IdlePass(update, fetched, emails, raising, eraising) ==
    /\ bot.pc = "idle"
    /\ bot' =
          LET \* self._mailbox.idle.wait(timeout=timeout) was called
              w == [NoDelivery(bot) EXCEPT !.idleTick = ~@]
              p == Process(w, "none", emails, raising, eraising)
          IN
          IF bot.stop_event THEN [NoDelivery(bot) EXCEPT !.pc = "done"]
          ELSE IF ~bot.idle_supported
          THEN Unsupported(NoDelivery(bot), TRUE, eraising)
          ELSE IF update = "failed"
          THEN Unsupported([w EXCEPT !.idle_supported = FALSE],
                           TRUE, eraising)
          ELSE IF update = "timeout" THEN w
          ELSE IF fetched \in {"none", "event"}
          THEN Process(w, fetched, emails, raising, eraising)
          ELSE IF fetched = "ConnectionError"
          THEN [EmitError(p, 1, TRUE, eraising) EXCEPT !.pc = "reconnect"]
          ELSE [EmitError(p, 1, FALSE, eraising) EXCEPT !.pc = "done"]
    /\ BotFrame

\* Lines 209-221 with IdleHandler.reconnect: connect again and, if IDLE was
\* supported, start it again.
Reconnect(connects, idle, eraising) ==
    /\ bot.pc = "reconnect"
    /\ bot' = LET \* time.sleep(backoff); self._backoff_attempts += 1
                  b == [bot EXCEPT !.slept = Backoff(bot.backoff_attempts),
                                   !.backoff_attempts = @ + 1]
              IN IF ~connects
                 THEN [EmitError(b, 1, FALSE, eraising) EXCEPT !.pc = "done"]
                 ELSE [b EXCEPT !.pc = "idle", !.backoff_attempts = 0,
                                !.idle_supported = @ /\ idle]
    /\ BotFrame

\* stop(), lines 166-171, called once by another thread.
Stop ==
    /\ ~bot.stopCalled
    /\ bot' = [bot EXCEPT !.stop_event = TRUE, !.running = FALSE,
                          !.stopCalled = TRUE,
                          !.stopDuring = bot.pc \notin {"new", "done", "raised"}]
    /\ BotFrame

Fetched == {"none", "event", "ConnectionError", "Exception"}

\* The steps of the thread in start().
StartSteps ==
    \/ Start
    \/ StartClear
    \/ \E connects, idle \in BOOLEAN, eraising \in SUBSET ErrorCallbacks :
          Connect(connects, idle, eraising)
    \/ \E emails \in EmailLists, raising \in SUBSET Callbacks,
          eraising \in SUBSET ErrorCallbacks :
          /\ raising = {} => eraising = {}
          /\ PollPass("event", emails, raising, eraising)
    \/ \E fetched \in Fetched \ {"event"}, eraising \in SUBSET ErrorCallbacks :
          /\ fetched = "none" => eraising = {}
          /\ PollPass(fetched, <<>>, {}, eraising)
    \/ \E emails \in EmailLists, raising \in SUBSET Callbacks,
          eraising \in SUBSET ErrorCallbacks :
          /\ raising = {} => eraising = {}
          /\ IdlePass("update", "event", emails, raising, eraising)
    \/ \E fetched \in Fetched \ {"event"}, eraising \in SUBSET ErrorCallbacks :
          /\ fetched = "none" => eraising = {}
          /\ IdlePass("update", fetched, <<>>, {}, eraising)
    \/ \E update \in {"timeout", "failed"} :
          IdlePass(update, "none", <<>>, {}, {})
    \/ \E connects, idle \in BOOLEAN, eraising \in SUBSET ErrorCallbacks :
          Reconnect(connects, idle, eraising)

NextBot ==
    \/ StartSteps
    \/ Stop

\* The thread in start() keeps running: every call it waits in has a
\* timeout.
SpecBot == InitBot /\ [][NextBot]_vars /\ WF_vars(StartSteps)

\* ------------------------------------- one backend, called by two threads
\* The threads call get, set and delete of one MemoryCache or FileCache on
\* one key.  A step of a thread is one statement of the method it runs; the
\* interpreter may switch threads between two statements.
SharedKey == CacheKey(USERNAME, HANDLEDNING)
SharedPath == GetCachePath(SharedKey)

\* The cookie jars the threads store, of different lengths when written.
ThreadObjects == {o \in CallerObjects : ~o.dict}

\* The entry the backend may hold before the threads start.
PreviousObject == JarVal({Cookie(LANG, "v0", "dsv.su.se")})

\* A file as the file system keeps it: what it holds, and the inode the path
\* names, which an open file keeps after the path is unlinked.
WithInode(data, ino) == data @@ [ino |-> ino]

\* The length of what a file holds, counted in cookie records.
FileLen(f) == IF IsMalformed(f) THEN f.len ELSE Len(f.cookies)

InitThreads ==
    /\ backend \in {"memory", "file"}
    /\ default_ttl = 1
    /\ cache_ttl = 1
    /\ now = 0
    /\ last = NoCall
    /\ prev = NoCall
    /\ IdleLogin
    /\ NoCallers
    /\ \E before \in BOOLEAN :
          /\ memCache = [k \in Keys |->
                IF before /\ backend = "memory" /\ k = SharedKey
                THEN [present |-> TRUE, cookies |-> PreviousObject,
                      expires_at |-> 0]
                ELSE NoEntry]
          /\ files = [q \in Paths |->
                IF before /\ backend = "file" /\ q = SharedPath
                THEN WithInode(FileData(PreviousObject, 0), <<"", 0>>)
                ELSE NoEntry]

\* The call of thread th has returned.
Done(th) == [th EXCEPT !.pc = "idle", !.did = @ \cup {th.op}]

\* The call of thread th has raised e.
Raise(th, e) == [Done(th) EXCEPT !.raised = e]

\* Thread th begins a call of op.
Begin(th, op) == [th EXCEPT !.op = op, !.n = @ + 1]

ThreadFrame ==
    /\ UNCHANGED <<made, bot, twin, flows, backend, default_ttl, now, last, prev>>
    /\ UNCHANGED loginVars

\* MemoryCache.get, lines 92-104, statement by statement.
MemoryGet(t) ==
    LET th == threads[t]
        e == memCache[SharedKey]
    IN /\ backend = "memory"
       /\ ThreadFrame
       /\ UNCHANGED files
       /\ CASE th.pc = "idle" ->
                 \* if key not in self._cache: return None
                 /\ th.n < MaxOps
                 /\ threads' = [threads EXCEPT ![t] =
                       IF e.present
                       THEN [Begin(th, "get") EXCEPT !.pc = "get_read"]
                       ELSE [Done(Begin(th, "get")) EXCEPT !.ret = Absent]]
                 /\ UNCHANGED memCache
            [] th.pc = "get_read" ->
                 \* cookies, expires_at = self._cache[key]
                 /\ threads' = [threads EXCEPT ![t] =
                       IF e.present
                       THEN [th EXCEPT !.pc = "get_check", !.read = e]
                       ELSE Raise(th, "KeyError")]
                 /\ UNCHANGED memCache
            [] th.pc = "get_check" ->
                 \* if datetime.now() > expires_at
                 /\ threads' = [threads EXCEPT ![t] =
                       IF Expired(now, th.read.expires_at)
                       THEN [th EXCEPT !.pc = "get_evict"]
                       ELSE [Done(th) EXCEPT !.ret = th.read.cookies]]
                 /\ UNCHANGED memCache
            [] th.pc = "get_evict" ->
                 \* del self._cache[key]; return None
                 IF e.present
                 THEN /\ memCache' = [memCache EXCEPT ![SharedKey] = NoEntry]
                      /\ threads' = [threads EXCEPT ![t] =
                            [Done(th) EXCEPT
                                !.ret = Absent,
                                !.lost = @ \/ ~Expired(now, e.expires_at)]]
                 ELSE /\ threads' = [threads EXCEPT ![t] = Raise(th, "KeyError")]
                      /\ UNCHANGED memCache
            [] OTHER -> FALSE

\* MemoryCache.set, lines 106-110.
MemorySet(t, obj) ==
    LET th == threads[t]
    IN /\ backend = "memory"
       /\ ThreadFrame
       /\ UNCHANGED files
       /\ CASE th.pc = "idle" ->
                 \* expires_at = datetime.now() + timedelta(seconds=ttl)
                 /\ th.n < MaxOps
                 /\ threads' = [threads EXCEPT ![t] =
                       [Begin(th, "set") EXCEPT
                           !.pc = "set_store", !.obj = obj,
                           !.exp = ExpiresAt(now, NoTtl, default_ttl)]]
                 /\ UNCHANGED memCache
            [] th.pc = "set_store" /\ th.obj = obj ->
                 \* self._cache[key] = (cookies, expires_at)
                 /\ memCache' = [memCache EXCEPT ![SharedKey] =
                       [present |-> TRUE, cookies |-> th.obj,
                        expires_at |-> th.exp]]
                 /\ threads' = [threads EXCEPT ![t] = Done(th)]
            [] OTHER -> FALSE

\* MemoryCache.delete, lines 112-115.
MemoryDelete(t) ==
    LET th == threads[t]
        e == memCache[SharedKey]
    IN /\ backend = "memory"
       /\ ThreadFrame
       /\ UNCHANGED files
       /\ CASE th.pc = "idle" ->
                 \* if key in self._cache
                 /\ th.n < MaxOps
                 /\ threads' = [threads EXCEPT ![t] =
                       IF e.present
                       THEN [Begin(th, "delete") EXCEPT !.pc = "delete_del"]
                       ELSE Done(Begin(th, "delete"))]
                 /\ UNCHANGED memCache
            [] th.pc = "delete_del" ->
                 \* del self._cache[key]
                 IF e.present
                 THEN /\ memCache' = [memCache EXCEPT ![SharedKey] = NoEntry]
                      /\ threads' = [threads EXCEPT ![t] = Done(th)]
                 ELSE /\ threads' = [threads EXCEPT ![t] = Raise(th, "KeyError")]
                      /\ UNCHANGED memCache
            [] OTHER -> FALSE

\* FileCache.get, lines 146-179.  open() and json.load read the file at one
\* instant.
FileGetSteps(t) ==
    LET th == threads[t]
        f == files[SharedPath]
    IN /\ backend = "file"
       /\ ThreadFrame
       /\ UNCHANGED memCache
       /\ CASE th.pc = "idle" ->
                 \* if not cache_path.exists(): return None
                 /\ th.n < MaxOps
                 /\ threads' = [threads EXCEPT ![t] =
                       IF f.present
                       THEN [Begin(th, "get") EXCEPT !.pc = "get_read"]
                       ELSE [Done(Begin(th, "get")) EXCEPT !.ret = Absent]]
                 /\ UNCHANGED files
            [] th.pc = "get_read" ->
                 \* with open(cache_path) as f: data = json.load(f)
                 /\ threads' = [threads EXCEPT ![t] =
                       IF ~f.present
                       THEN Raise(th, "FileNotFoundError")
                       ELSE IF IsMalformed(f)
                       THEN IF LoadError(f.malformed) \in Caught
                            THEN [th EXCEPT !.pc = "get_recover"]
                            ELSE Raise(th, LoadError(f.malformed))
                       ELSE [th EXCEPT !.pc = "get_check", !.read = f]]
                 /\ UNCHANGED files
            [] th.pc = "get_check" ->
                 \* if datetime.now() > expires_at
                 /\ threads' = [threads EXCEPT ![t] =
                       IF Expired(now, FromIsoFormat(th.read.expires_at))
                       THEN [th EXCEPT !.pc = "get_evict"]
                       ELSE [Done(th) EXCEPT
                                !.ret = JarVal(Reconstruct(th.read.cookies, {}))]]
                 /\ UNCHANGED files
            [] th.pc = "get_evict" ->
                 \* cache_path.unlink(); return None
                 IF f.present
                 THEN /\ files' = [files EXCEPT ![SharedPath] = NoEntry]
                      /\ threads' = [threads EXCEPT ![t] =
                            [Done(th) EXCEPT
                                !.ret = Absent,
                                !.lost = @ \/ (/\ ~IsMalformed(f)
                                               /\ ~Expired(now,
                                                     FromIsoFormat(f.expires_at)))]]
                 ELSE /\ threads' = [threads EXCEPT ![t] =
                            Raise(th, "FileNotFoundError")]
                      /\ UNCHANGED files
            [] th.pc = "get_recover" ->
                 \* except ...: cache_path.unlink(missing_ok=True); return None
                 /\ files' = [files EXCEPT ![SharedPath] = NoEntry]
                 /\ threads' = [threads EXCEPT ![t] =
                       [Done(th) EXCEPT
                           !.ret = Absent,
                           !.lost = @ \/ (/\ f.present
                                          /\ ~IsMalformed(f)
                                          /\ ~Expired(now,
                                                FromIsoFormat(f.expires_at)))]]
            [] OTHER -> FALSE

\* FileCache.set, lines 181-217.  open(path, "w") truncates the file the path
\* names, or creates one; json.dump leaves the text in the buffer of the
\* file object, and closing it writes the text at the start of the opened
\* file, over what another writer has put there in the meantime.
FileSetSteps(t, obj) ==
    LET th == threads[t]
        f == files[SharedPath]
    IN /\ backend = "file"
       /\ ThreadFrame
       /\ UNCHANGED memCache
       /\ CASE th.pc = "idle" ->
                 \* expires_at, cookies_data, data
                 /\ th.n < MaxOps
                 /\ threads' = [threads EXCEPT ![t] =
                       [Begin(th, "set") EXCEPT
                           !.pc = "set_open", !.obj = obj,
                           !.exp = ExpiresAt(now, NoTtl, default_ttl)]]
                 /\ UNCHANGED files
            [] th.pc = "set_open" /\ th.obj = obj ->
                 \* open(cache_path, "w")
                 LET ino == IF f.present THEN f.ino ELSE <<t, th.n>>
                 IN /\ files' = [files EXCEPT ![SharedPath] =
                          WithInode(Malformed("empty", 0, 0), ino)]
                    /\ threads' = [threads EXCEPT ![t] =
                          [th EXCEPT !.pc = "set_write", !.ino = ino]]
            [] th.pc = "set_write" /\ th.obj = obj ->
                 \* json.dump(data, f, indent=2), and the file is closed
                 /\ files' =
                       IF f.present /\ f.ino = th.ino
                       THEN [files EXCEPT ![SharedPath] =
                               WithInode(
                                 IF FileLen(f) > Len(CookiesData(th.obj))
                                 THEN Malformed("extra_data", 0, FileLen(f))
                                 ELSE FileData(th.obj, th.exp),
                                 th.ino)]
                       ELSE files
                 /\ threads' = [threads EXCEPT ![t] = Done(th)]
            [] OTHER -> FALSE

\* FileCache.delete, lines 219-222.
FileDeleteStep(t) ==
    LET th == threads[t]
    IN /\ backend = "file"
       /\ ThreadFrame
       /\ UNCHANGED memCache
       /\ th.pc = "idle"
       /\ th.n < MaxOps
       /\ files' = [files EXCEPT ![SharedPath] = NoEntry]
       /\ threads' = [threads EXCEPT ![t] = Done(Begin(th, "delete"))]

\* Time passes while the threads run.
TickThreads ==
    /\ now < MaxTime
    /\ now' = now + 1
    /\ UNCHANGED <<made, bot, twin, threads, flows, backend, default_ttl, memCache, files,
                   last, prev>>
    /\ UNCHANGED loginVars

NextThreads ==
    \/ \E t \in Threads : MemoryGet(t)
    \/ \E t \in Threads, obj \in ThreadObjects : MemorySet(t, obj)
    \/ \E t \in Threads : MemoryDelete(t)
    \/ \E t \in Threads : FileGetSteps(t)
    \/ \E t \in Threads, obj \in ThreadObjects : FileSetSteps(t, obj)
    \/ \E t \in Threads : FileDeleteStep(t)
    \/ TickThreads

SpecThreads == InitThreads /\ [][NextThreads]_vars

\* ------------------------------ one authenticator, called by two threads
\* While the _login call of the sections above runs, a second thread calls
\* _login of the same ShibbolethAuth for another service.  The second call
\* runs the same code; it is followed through the statements that touch
\* what the two calls share, self.session and the cache backend.
OtherService == HANDLEDNING
FirstService == DAISY_STAFF

OtherFrame ==
    UNCHANGED <<made, bot, twin, threads, backend, default_ttl, now, last, prev,
               cache_ttl,
                pc, soup, resp, call, result>>

\* Lines 63-83 of the second call: the lookup of its key.
OtherStart(f) ==
    /\ flows[f].pc = "idle"
    /\ LET g == BackendGet(backend, memCache, files,
                           CacheKey(USERNAME, OtherService), now)
       IN /\ memCache' = g.cache
          /\ files' = g.files
          /\ jar' = IF g.ret.absent THEN jar
                    ELSE JarUpdate(jar, Deref(g.ret, jar))
    /\ flows' = [flows EXCEPT ![f].pc = "exchange"]
    /\ OtherFrame

\* An exchange of the second call through self.session (lines 171, 196,
\* 243, 258, 276): the cookies of the response go to the session jar.
OtherExchange(f, sc) ==
    /\ flows[f].pc = "exchange"
    /\ jar' = JarUpdate(jar, sc)
    /\ flows' = [flows EXCEPT ![f].pc = "verify"]
    /\ UNCHANGED <<memCache, files>>
    /\ OtherFrame

\* Lines 278-291 and 91-95 of the second call: the verification of the
\* session jar, and the jar stored under the key of the second call.
OtherFinish(f) ==
    /\ flows[f].pc = "verify"
    /\ IF HasSessionCookie(jar)
       THEN LET w == BackendSet(backend, memCache, files,
                                CacheKey(USERNAME, OtherService), SessionRef,
                                StoreTtl(cache_ttl), default_ttl, now, jar)
            IN /\ memCache' = w.cache
               /\ files' = w.files
               /\ flows' = [flows EXCEPT ![f] =
                     [pc |-> "done", outcome |-> "ok", cookies |-> jar]]
       ELSE /\ UNCHANGED <<memCache, files>>
            /\ flows' = [flows EXCEPT ![f] =
                  [pc |-> "done", outcome |-> "AuthenticationError",
                   cookies |-> {}]]
    /\ UNCHANGED jar
    /\ OtherFrame

NextFlows ==
    \/ \E v \in BOOLEAN : call.n = 0 /\ LoginStart(FirstService, v)
    \/ EngineSteps(FacadePages, FacadeCredentialPages, FacadeSetCookies)
    \/ \E f \in FlowIds : OtherStart(f)
    \/ \E f \in FlowIds, sc \in FacadeSetCookies : OtherExchange(f, sc)
    \/ \E f \in FlowIds : OtherFinish(f)

SpecFlows == InitLogin /\ [][NextFlows]_vars

\* ------------------------------------------------------------------- C3
\* C3: when a login for a service has succeeded on a backend that stores
\* entries, the next login for that service with validate_cache off, begun
\* before the entry expires, returns at once: the Login Flow Engine is not
\* run, no network exchange is made, and the cookies returned are those the
\* first login returned.
C3_IdempotentCachedLogin ==
    [][(/\ pc = "idle"
        /\ call'.n = call.n + 1
        /\ ~call'.validate
        /\ call'.service = call.service
        /\ result.outcome = "ok"
        /\ backend \in {"memory", "file"}
        /\ now <= result.expires)
          => (/\ pc' = "idle"
              /\ result'.outcome = "ok"
              /\ result'.cookies = result.cookies
              /\ call'.engineRuns = 0
              /\ ~call'.network)]_vars

C3_Witness ==
    /\ pc = "idle" /\ call.n >= 1
    /\ call.n = 2
    /\ backend = "file"
    /\ call.hit /\ ~call.validate
    /\ call.engineRuns = 0
    /\ result.outcome = "ok"
    /\ result.cookies # {}
    /\ now > 0

\* ------------------------------------------------------------------- C4
\* C4: when login finds a cache entry and the validator reports it invalid,
\* the call deletes the entry and empties the session jar before the Login
\* Flow Engine starts, and runs the engine exactly once.
C4_InvalidationTriggersRelogin ==
    call.invalid
        => /\ call.hit
           /\ call.deletes = 1
           /\ pc = "initiate"
                 => (/\ call.engineRuns = 0
                     /\ jar = {}
                     /\ ~Stored(backend, memCache, files, call.key))
           /\ pc # "initiate"
                 => (/\ call.engineRuns = 1
                     /\ call.cleanStart)

C4_Witness ==
    /\ pc = "idle" /\ call.n >= 1
    /\ call.invalid
    /\ call.engineRuns = 1
    /\ result.outcome = "ok"
    /\ result.cookies # {}

\* ------------------------------------------------------------------- C5
\* C5: if the response to the credential POST holds a login-error element,
\* login raises an Authentication error and makes no write to the cache
\* backend in that call (a call that a network failure ends aside).
C5_CredentialFailureUncached ==
    (pc = "idle" /\ call.n >= 1 /\ call.credError /\ result.outcome # "NetworkError")
        => (/\ result.outcome = "AuthenticationError"
            /\ call.cacheWrites = 0)

\* ------------------------------------------------------------------- C6
\* C6: if the response to the credential POST, after any redirect is
\* followed, presents a login form again, login raises an Authentication
\* error and the cache holds no entry for the key afterwards (a call that a
\* network failure ends aside).
C6_RedisplayedLoginFormFails ==
    (pc = "idle" /\ call.n >= 1 /\ call.redisplay /\ result.outcome # "NetworkError")
        => (/\ result.outcome = "AuthenticationError"
            /\ ~Stored(backend, memCache, files, call.key))

\* ------------------------------------------------------------------- C7
\* C7: every cookie set the Login Flow Engine returns, on every path, holds
\* a cookie named JSESSIONID or with the _shibsession prefix; a flow that
\* ends with no such cookie in the jar ends in an Authentication error.
C7_VerificationInvariant ==
    (pc = "idle" /\ call.n >= 1 /\ call.engineRuns = 1 /\ result.outcome = "ok")
        => HasSessionCookie(result.cookies)

\* ------------------------------------------------------------------- C8
\* C8: if the page reached after the initiate and intermediate-form steps
\* has no login form, the engine posts no credentials and the verification
\* of the session jar decides the outcome: success with a session cookie in
\* the jar, an Authentication error without.
C8_NoLoginFormGoesToVerification ==
    (pc = "idle" /\ call.n >= 1 /\ call.noLoginForm)
        => /\ call.credPosts = 0
           /\ result.outcome =
                 IF HasSessionCookie(jar) THEN "ok" ELSE "AuthenticationError"

\* ------------------------------------------------------------------- C9
\* C9: if the Login Flow Engine fails in a login call, login raises one of
\* the package's typed errors and writes nothing to the cache, and the cache
\* holds no entry for the key after the call.
C9_FailuresNeverCached ==
    (pc = "idle" /\ call.n >= 1 /\ call.engineRuns = 1 /\ result.outcome # "ok")
        => (/\ result.outcome \in {"NetworkError", "AuthenticationError"}
            /\ call.cacheWrites = 0
            /\ ~Stored(backend, memCache, files, call.key))

\* ------------------------------------------------------------------ C10
\* C10: after login(service) has succeeded through a fresh engine run on a
\* backend that stores entries, the backend holds an entry under
\* "{username}_{service}" that expires cache_ttl seconds after the call
\* ended, and get of that key returns the cookies login returned.
C10_SuccessIsCached ==
    (/\ pc = "idle" /\ call.n >= 1
     /\ call.engineRuns = 1 /\ result.outcome = "ok"
     /\ backend \in {"memory", "file"})
        => LET key == <<"u", "_">> \o call.service
               g == BackendGet(backend, memCache, files, key, result.at)
           IN /\ Stored(backend, memCache, files, key)
              /\ StoredExpiry(backend, memCache, files, key)
                    = result.at + cache_ttl
              /\ ~g.ret.absent
              /\ Tuples(g.ret, jar) = result.cookies

C10_Witness ==
    /\ pc = "idle" /\ call.n >= 1
    /\ call.engineRuns = 1
    /\ result.outcome = "ok"
    /\ backend = "file"
    /\ call.credPosts = 1
    /\ result.at > 0
    /\ result.cookies # {}
    /\ cache_ttl # default_ttl

\* ------------------------------------------------------------------ C11
\* C11: logout() leaves the session jar empty and the backend without an
\* entry, so that get(k) is absent for every key until the next login, and
\* the login call that comes next does not find a cached entry and goes on to the Login Flow
\* Engine, with validate_cache off as well.
C11_LogoutClearsEverything ==
    [][/\ (result'.outcome = "logout" /\ pc' = "idle")
          => /\ jar' = {}
             /\ \A k \in Keys :
                   BackendGet(backend', memCache', files', k, now').ret.absent
       /\ (result.outcome = "logout" /\ call'.n = call.n + 1)
          => (~call'.hit /\ pc' = "initiate")]_vars

C11_Witness ==
    /\ pc = "initiate"
    /\ call.n = 2
    /\ ~call.validate
    /\ backend = "memory"
    /\ result.outcome = "logout"
    /\ result.expires >= now

\* ------------------------------------------------------------------ C12
\* C12: the validator reports the cookies invalid exactly when the response
\* to the validation GET is (a) a redirect whose Location holds a login or
\* SSO marker, or (b) a 200 response whose leading part holds a form tag and
\* a password-field marker; each of the two alone is enough, and every
\* other response is valid.
C12_ValidatorClassification ==
    call.signal \in {"redirect", "form", "neither"}
        => (call.invalid <=> call.signal \in {"redirect", "form"})

\* ------------------------------------------------------------------ C13
\* C13: when the validation request raises, the call does not end there:
\* the entry is deleted and the call goes on to one run of the Login Flow
\* Engine, whose outcome is the outcome of the call.
C13_ValidationErrorIsInvalid ==
    call.signal = "error"
        => /\ call.invalid
           /\ call.deletes = 1
           /\ pc # "validate"
           /\ pc = "initiate"
                 => (/\ call.engineRuns = 0
                     /\ ~Stored(backend, memCache, files, call.key))
           /\ pc # "initiate" => call.engineRuns = 1

C13_Witness ==
    /\ call.signal = "error"
    /\ pc = "idle"
    /\ backend = "file"
    /\ call.engineRuns = 1
    /\ result.outcome = "ok"
    /\ call.hit
    /\ call.credPosts = 1
    /\ result.cookies # {}

\* ------------------------------------------------------------------ C18
\* C18: a get of the file backend that finds a malformed file, whatever is
\* wrong with it, raises nothing, returns absent and leaves no file at the
\* path.
C18_CorruptionRecoveredSilently ==
    (last.op = "get" /\ last.malformed)
        => (/\ last.err = ""
            /\ last.ret.absent
            /\ ~Stored(backend, memCache, files, last.key))

\* ------------------------------------------------------------------ C14
\* C14: with threads calling get, set and delete of one MemoryCache on one
\* key, no call raises, every get returns absent or a cookie set that was
\* stored, and the expiry eviction of a get removes no unexpired entry.
C14_MemoryCacheThreadSafe ==
    backend = "memory"
        => \A t \in Threads :
              /\ threads[t].raised = ""
              /\ threads[t].ret \in {Absent, PreviousObject} \cup ThreadObjects
              /\ ~threads[t].lost

\* ------------------------------------------------------------------ C15
\* C15: when one thread runs one set of the file backend and the other runs
\* gets on the same key, no call raises, every get returns absent, the
\* previous entry or the new cookie set, and once the calls have returned,
\* the entry not yet expired, get returns the cookie set that was written.
C15_FileGetDuringSet ==
    \A w \in Threads, r \in Threads :
        (/\ backend = "file"
         /\ w # r
         /\ threads[w].did = {"set"} /\ threads[w].n = 1
         /\ threads[r].did = {"get"}
         /\ threads[w].pc = "idle" /\ threads[r].pc = "idle"
         /\ now <= threads[w].exp)
            => /\ threads[w].raised = "" /\ threads[r].raised = ""
               /\ threads[r].ret \in
                     {Absent, JarVal(PreviousObject.cookies),
                      JarVal(threads[w].obj.cookies)}
               /\ ~FileGet(files, SharedKey, now).ret.absent
               /\ Tuples(FileGet(files, SharedKey, now).ret, jar)
                     = threads[w].obj.cookies

\* ------------------------------------------------------------------ C16
\* C16: when the two threads each run one set of the file backend on the same
\* key, then once both have returned, neither entry expired, get returns the
\* cookie set of one of the two and not absent.
C16_LastWriterWins ==
    (/\ backend = "file"
     /\ \A t \in Threads :
           /\ threads[t].did = {"set"} /\ threads[t].n = 1
           /\ threads[t].pc = "idle"
           /\ now <= threads[t].exp)
        => /\ FileGet(files, SharedKey, now).err = ""
           /\ ~FileGet(files, SharedKey, now).ret.absent
           /\ Tuples(FileGet(files, SharedKey, now).ret, jar)
                 \in {threads[t].obj.cookies : t \in Threads}

\* ------------------------------------------------------------------ C17
\* C17: _login calls that run at the same time share no session: while one
\* call is running, no step taken while another call is running too changes
\* the cookie jar it works on.
C17_PerFlowIsolation ==
    [][jar' # jar
        => ~(/\ pc # "idle"
             /\ \E f \in FlowIds : flows[f].pc \in {"exchange", "verify"})]_vars

\* ------------------------------------------------------------------ C19
\* C19: an authenticator built without a cache backend keeps nothing: after
\* the set of every successful login and the clear of every logout, nothing
\* is stored, get(k) is absent for every key, no login call finds a cached
\* entry, and every login call, when it
\* ends, has run the Login Flow Engine.
C19_NullCacheIsStateless ==
    backend = CacheBackendOrDefault("None")
        => /\ memCache = [k \in Keys |-> NoEntry]
           /\ files = [q \in Paths |-> NoEntry]
           /\ \A k \in Keys :
                 /\ BackendGet(backend, memCache, files, k, now).ret.absent
                 /\ ~Stored(backend, memCache, files, k)
           /\ ~call.hit
           /\ (pc = "idle" /\ call.n >= 1 /\ result.outcome # "logout")
                 => call.engineRuns = 1

C19_Witness ==
    /\ backend = "null"
    /\ pc = "idle"
    /\ call.n = 2
    /\ call.engineRuns = 1
    /\ call.cacheWrites = 1
    /\ ~call.validate
    /\ result.outcome = "ok"
    /\ result.cookies # {}

\* ------------------------------------------------------------------ C20
\* C20: every service target the clients log in to has an SSO URL, so a
\* login for one of them does not end in the configuration error; a login
\* that does end in it has made no network request and returned no cookies.
C20_UnmappedServiceFailsFast ==
    (pc = "idle" /\ call.n >= 1)
        => /\ call.service \in ClientServices => result.outcome # "ValueError"
           /\ result.outcome = "ValueError"
                 => (~call.network /\ result.cookies = {})

\* ------------------------------------------------------------------ C21
\* C21: every run of the Login Flow Engine ends: a _login call that has
\* started the flow returns or raises, whatever the servers do.
C21_EveryRunTerminates == (pc = "initiate") ~> (pc = "idle")

\* ------------------------------------------------------------------ C22
\* C22: when the form a step must submit (the intermediate form, the login
\* form or the relay form) has no action attribute, the step ends the flow
\* with AuthenticationError and sends no request.
C22_MissingActionIsTypedError ==
    [][(/\ pc' # pc
        /\ \/ pc = "intermediate" /\ FindForm(soup).form.action = "none"
           \/ /\ pc = "credential"
              /\ DetectLoginForm(soup).found
              /\ DetectLoginForm(soup).form.action = "none"
           \/ /\ pc = "relay"
              /\ FindPostForm(soup).found
              /\ FindPostForm(soup).form.action = "none")
       => /\ pc' = "idle"
          /\ result'.outcome = "AuthenticationError"
          /\ call'.network = call.network]_vars

\* ------------------------------------------------------------------ C28
\* C28: within one engine run the steps come in the order initiate,
\* intermediate POST, credential POST, redirect GET, relay POST and
\* verification: every step of the run moves to a later step or ends the
\* run, and the credentials are posted at most once.
C28_FlowIsLinear ==
    [][/\ (pc \in {"initiate", "intermediate", "credential", "follow", "relay"}
           /\ pc' # pc)
          => \/ pc' = "idle"
             \/ pc = "initiate" /\ pc' \in {"intermediate", "credential"}
             \/ pc = "intermediate" /\ pc' = "credential"
             \/ pc = "credential" /\ pc' \in {"follow", "relay"}
             \/ pc = "follow" /\ pc' = "relay"
       /\ call'.credPosts <= 1
       /\ call'.engineRuns <= 1
       /\ (pc = "credential" /\ pc' = pc) => call'.credPosts = call.credPosts]_vars

C28_Witness ==
    /\ pc = "relay"
    /\ resp.status = 302
    /\ call.credPosts = 1
    /\ FindPostForm(soup).found
    /\ HasSchema(FindPostForm(soup).form.action)

\* ------------------------------------------------------------------ C29
\* C29: no form that holds a j_username field is posted by the
\* pass-through step or by the relay step, which post a form with the
\* values it came with.
C29_CredentialFormNeverPassedThrough ==
    [][~(/\ pc' # pc
         /\ SendsRequest
         /\ \/ pc = "intermediate" /\ FindForm(soup).form.juser
            \/ pc = "relay" /\ FindPostForm(soup).form.juser)]_vars

\* ------------------------------------------------------------------ C30
\* C30: with the in-memory backend, no step of a login call for one service
\* changes the cookies that get returns for the entry of another service.
C30_OtherServiceEntryUnchanged ==
    [][\A k \in LoginKeys :
          (/\ backend = "memory"
           /\ call'.n >= 1
           /\ call'.key # k
           /\ memCache[k].present
           /\ memCache'[k].present)
          => Tuples(memCache'[k].cookies, jar') = Tuples(memCache[k].cookies, jar)]_vars

\* ------------------------------------------------------------------ C24
\* C24: constructing a client or a bot when neither the arguments nor the
\* environment give a username and a password raises the configuration
\* error in the constructor, for every class, sync and async.
C24_MissingCredentialsFailAtConstruction ==
    (/\ made.outcome # "none"
     /\ \/ Falsy(made.username) /\ Falsy(made.env_username)
        \/ Falsy(made.password) /\ Falsy(made.env_password))
        => made.outcome \in {"AuthenticationError", "ValueError"}

C23_AsyncLoginMatchesSync ==
    (pc = "idle" /\ call.n = 1 /\ twin.pc = "done" /\ twin.entered)
        => /\ twin.outcome = result.outcome
           /\ twin.stored = Stored(backend, memCache, files, call.key)

\* ------------------------------------------------------------------ C31
\* The cookies the identity provider gives a user.
UserCookies(username) ==
    {Cookie(JSESSIONID,
            IF \E i \in DOMAIN username : username[i] = "/" THEN "v1" ELSE "v2",
            "idp.it.su.se")}

\* _login of an authenticator of the user, as one step: the cache lookup
\* under the key of (username, service), the validation of a hit, the delete
\* of an invalid hit, the flow and the store of its cookies.
UserLogin(username, service, validate_cache, valid) ==
    LET key == CacheKey(username, service)
        g == BackendGet(backend, memCache, files, key, now)
        hit == g.ret # Absent
        use == hit /\ (ReturnsUnvalidated(hit, validate_cache) \/ valid)
        d == IF hit
             THEN BackendDelete(backend, g.cache, g.files, key)
             ELSE [cache |-> g.cache, files |-> g.files]
        fresh == JarVal(UserCookies(username))
        s == BackendSet(backend, d.cache, d.files, key, fresh,
                        StoreTtl(cache_ttl), default_ttl, now,
                        UserCookies(username))
    IN /\ pc = "idle"
       /\ memCache' = IF use THEN g.cache ELSE s.cache
       /\ files' = IF use THEN g.files ELSE s.files
       /\ prev' = NoCall
       /\ last' = [op |-> "login", key |-> key,
                   obj |-> IF use THEN Absent ELSE fresh,
                   ttl |-> cache_ttl, at |-> now,
                   ret |-> IF use THEN g.ret ELSE fresh,
                   stale |-> FALSE, err |-> "", malformed |-> hit /\ ~use]
       /\ UNCHANGED <<made, bot, twin, threads, flows, backend, default_ttl, now>>
       /\ UNCHANGED loginVars

NextUsers ==
    \/ \E un \in Users, s \in Services, v \in BOOLEAN, ok \in BOOLEAN :
          UserLogin(un, s, v, ok)
    \/ Tick

SpecUsers == InitCache /\ [][NextUsers]_vars

\* What get returns for the key, as name/value/domain/path tuples.
Visible(kind, cache, fs, key, t) ==
    LET r == BackendGet(kind, cache, fs, key, t).ret
    IN IF r = Absent THEN {} ELSE Tuples(r, {})

\* C31: a login of one (username, service) pair returns the cookies of its
\* own user and leaves what get returns for the key of every other pair
\* as it was.
C31_LoginStaysInItsOwnEntry ==
    [][\A un \in Users, s \in Services :
          (last'.op = "login" /\ last'.key = CacheKey(un, s) /\ last' # last)
          => /\ Tuples(last'.ret, {}) = UserCookies(un)
             /\ \A k2 \in UserKeys \ {CacheKey(un, s)} :
                   Visible(backend, memCache', files', k2, now)
                   = Visible(backend, memCache, files, k2, now)]_vars

\* ------------------------------------------------------------------ C34
\* C34: in every backend a set or a delete on one key leaves what get
\* returns for every other key as it was, keys that differ only in
\* characters the file backend rewrites included.
C34_OtherKeysLeftAlone ==
    [][\A k \in CallerKeys :
          (last'.op \in {"set", "delete"} /\ last'.key = k)
          => \A k2 \in CallerKeys \ {k} :
                Visible(backend, memCache', files', k2, now)
                = Visible(backend, memCache, files, k2, now)]_vars

\* ------------------------------------------------------------------ C35
\* Direct cache calls and logins of one user on one key, with time passing.
NextTtl ==
    \/ \E obj \in CallerObjects, ttl \in {NoTtl} \cup 0..MaxTtl :
          CacheSet(CacheKey(USERNAME, HANDLEDNING), obj, ttl)
    \/ CacheGet(CacheKey(USERNAME, HANDLEDNING))
    \/ \E v \in BOOLEAN, ok \in BOOLEAN :
          UserLogin(USERNAME, HANDLEDNING, v, ok)
    \/ Tick

SpecTtl == InitCache /\ [][NextTtl]_vars

\* C35: on a backend that stores entries, an entry written by set expires
\* at its write time plus the ttl passed, or plus default_ttl when none is
\* passed; an entry written by login expires at its write time plus
\* cache_ttl; and a get after a set returns the entry exactly when the
\* time of the get is not after that expiry.
C35_TtlArithmetic ==
    backend \in {"memory", "file"}
    => /\ last.op = "set"
          => /\ Stored(backend, memCache, files, last.key)
             /\ StoredExpiry(backend, memCache, files, last.key)
                   = last.at + (IF last.ttl = NoTtl THEN default_ttl
                                ELSE last.ttl)
       /\ (last.op = "login" /\ last.obj # Absent)
          => /\ Stored(backend, memCache, files, last.key)
             /\ StoredExpiry(backend, memCache, files, last.key)
                   = last.at + cache_ttl
       /\ (last.op = "get" /\ prev.op = "set" /\ prev.key = last.key)
          => (last.ret # Absent
              <=> last.at <= prev.at + (IF prev.ttl = NoTtl THEN default_ttl
                                        ELSE prev.ttl))

\* A get at the very second the entry expires, with a ttl that differs from
\* the default, on the file backend.
C35_Witness ==
    /\ backend = "file"
    /\ last.op = "get" /\ prev.op = "set" /\ prev.key = last.key
    /\ prev.ttl \notin {NoTtl, 0, default_ttl}
    /\ last.at = prev.at + prev.ttl
    /\ last.ret # Absent

\* ------------------------------------------------------------------ C32
\* The <input> elements a login form may hold: without a name, a token
\* field, the credential fields already filled in, the submit buttons.
InputNames ==
    {<<>>, <<"csrf_token">>, <<"j_username">>, <<"_eventId_proceed">>,
     <<"_eventId_authn/SPNEGO">>, <<"_eventId_trySPNEGO">>}
InputValues == {<<>>, <<"">>, <<"x">>}
FormInputs == {Input(n, v) : n \in InputNames, v \in InputValues}

InputLists == UNION {[1..n -> FormInputs] : n \in 0..MaxInputs}

\* Login pages that hold any of these inputs.
BodyPages ==
    {Page(<<WithInputs(LoginForm, ins)>>, FALSE) : ins \in InputLists}

\* The other pages of these servers.
BodyOtherPages == {EmptyPage, Page(<<LocalStorageForm>>, FALSE)}
BodyCredentialPages == {EmptyPage, Page(<<SamlForm>>, FALSE)}
BodySetCookies == {{}, {Cookie(JSESSIONID, "v1", "idp.it.su.se")}}

\* One _login call: the first page, or the page after the intermediate
\* form, is one of the login pages.
NextBody ==
    \/ call.n = 0 /\ LoginStart(DAISY_STAFF, FALSE)
    \/ \E page \in BodyPages : Initiate(FALSE, page, {})
    \/ \E page \in BodyPages : Intermediate(FALSE, page, {})
    \/ EngineSteps(BodyOtherPages, BodyCredentialPages, BodySetCookies)

\* An authenticator with an in-memory cache.
InitBody == InitLogin /\ backend = "memory"

SpecBody == InitBody /\ [][NextBody]_vars

\* C32: the body of the credential POST has one field for every named
\* input of the login form, holding the value of an input of that name (the
\* empty string when it has none), except that j_username and j_password
\* hold the configured credentials, _eventId_proceed is the empty string
\* and _eventId_authn/SPNEGO and _eventId_trySPNEGO are not in it.
C32_CredentialBody ==
    [][call'.credPosts > call.credPosts
       => LET f == DetectLoginForm(soup).form
              b == call'.body
              set == {"j_username", "j_password", "_eventId_proceed"}
              dropped == {"_eventId_authn/SPNEGO", "_eventId_trySPNEGO"}
              named == {f.inputs[i].name[1] :
                          i \in {k \in 1..Len(f.inputs) :
                                   /\ f.inputs[k].name # <<>>
                                   /\ f.inputs[k].name # <<"">>}}
          IN /\ DOMAIN b = (named \cup set) \ dropped
             /\ b["j_username"] = "u"
             /\ b["j_password"] = PASSWORD
             /\ b["_eventId_proceed"] = ""
             /\ \A n \in DOMAIN b \ set :
                   \E i \in 1..Len(f.inputs) :
                      /\ f.inputs[i].name = <<n>>
                      /\ b[n] = IF f.inputs[i].value = <<>> THEN ""
                                ELSE f.inputs[i].value[1]]_vars

\* The credentials were posted with a token field of the form that had no
\* value or an empty one, and the flow has ended well.
C32_Witness ==
    /\ pc = "idle" /\ call.credPosts = 1
    /\ DOMAIN call.body =
          {"csrf_token", "j_username", "j_password", "_eventId_proceed"}
    /\ call.body["csrf_token"] = ""
    /\ call.body["j_username"] = "u"
    /\ result.outcome = "ok"

\* ------------------------------------------------------------------ C33
\* C33: the relay step posts a form only when the page holds a POST form
\* that carries the fields of an identity assertion; when the page holds no
\* POST form nothing is posted and the flow ends with the verification of
\* the session cookies.
C33_RelayPostsOnlyAssertions ==
    [][(pc = "relay" /\ pc' # "relay")
       => /\ call'.relayPosts > call.relayPosts
             => /\ FindPostForm(soup).found
                /\ HasAssertion(FindPostForm(soup).form)
          /\ ~FindPostForm(soup).found
             => /\ call'.relayPosts = call.relayPosts
                /\ result'.outcome \in {"ok", "AuthenticationError"}]_vars

====
